---- MODULE Spec2Model ----
(***************************************************************************)
(* Model of the gas-soundness-check scripts: the fee profiler              *)
(* (fee-profile.py), the transaction summarizers (App2.py, app1.py,        *)
(* batch_fee_report.py) and the gateway calls they issue.                  *)
(*                                                                         *)
(* One run of one script is one behaviour: Init picks the script (prog),   *)
(* its command line and the gateway's state; each action is one step of    *)
(* that script.                                                            *)
(*                                                                         *)
(* Numbers.  Wei amounts are integers.  A Gwei float x is held as the      *)
(* integer x * 10^10 (one unit = 1e-10 Gwei), so Web3.from_wei(w, "gwei")  *)
(* is w * UlpPerWei, the mean of two Gwei values is exact, and             *)
(* round(x, 3) is rounding to a multiple of UlpPerMilli.                   *)
(***************************************************************************)
EXTENDS Integers, Sequences, FiniteSets, TLC

VARIABLES
    prog,        \* which script this behaviour runs
    pc,          \* position in the script
    outcome,     \* how the process ended ("" while running)
    calls,       \* the gateway calls issued so far, in order
    argv,        \* the command line as given
    args,        \* the parsed arguments (main may overwrite args.blocks)
    gw_head,     \* the gateway's latest block number (fee profiler)
    head,        \* analyze: head
    start,       \* analyze: start
    n,           \* analyze: loop variable
    basefees,    \* analyze: basefees
    eff_prices,  \* analyze: eff_prices
    tips,        \* analyze: tips
    report,      \* analyze: the returned dict
    blk,         \* the block handed to the fee classifier / last block fetched
    values,      \* pct: values
    q,           \* pct: q, in hundredths
    result,      \* pct: the returned value
    gw_txs,      \* the gateway's chain: what it knows of each transaction
    gw_raises,   \* the client raises TransactionNotFound rather than return None
    gw_basefee,  \* the baseFeePerGas of the chain's blocks (None: pre-fee-market)
    failures,    \* RPC errors raised by the gateway so far
    rcpt,        \* the receipt fetched for the current transaction
    tx_obj,      \* the transaction object fetched for the current transaction
    block_obj,   \* the block fetched for the current transaction
    latest,      \* the latest block number as read by the script
    gas_efficiency, \* fetch_tx_summary: gas_efficiency, in hundredths of a percent
    summary,     \* the transaction summary produced (App2.py, app1.py)
    hashes,      \* batch: the valid hashes read
    pos,         \* batch: index of the hash being processed
    cache,       \* batch: block_cache
    fetched,     \* batch: the block numbers get_block answered, in order
    rows,        \* batch: rows
    w3a,         \* provider_consistency: what the primary provider holds
    w3b,         \* provider_consistency: what the secondary provider holds
    hex_0x,      \* the installed HexBytes.hex() writes the "0x" prefix
    block_id,    \* provider_consistency main: block_id
    bundle_a,    \* provider_consistency main: a
    bundle_b,    \* provider_consistency main: b
    cmp,         \* provider_consistency main: cmp
    all_match    \* provider_consistency main: all_match

feeVars == <<gw_head, head, start, n, basefees, eff_prices, tips, report, blk,
             values, q, result>>

gwVars == <<gw_txs, gw_raises, gw_basefee>>

txVars == <<rcpt, tx_obj, block_obj, latest, gas_efficiency, summary>>

batchVars == <<hashes, pos, cache, fetched, rows>>

providerVars == <<w3a, w3b, hex_0x>>

verifyVars == <<block_id, bundle_a, bundle_b, cmp, all_match>>

vars == <<prog, pc, outcome, calls, argv, args, feeVars, gwVars, failures,
          txVars, batchVars, providerVars, verifyVars>>

----------------------------------------------------------------------------
(* Bounds of the model *)

MaxTxPerBlock == 2      \* transactions in a block given to the classifier
MaxLen == 3             \* length of a sample given to pct
MaxRun == 4             \* sampled blocks in one profiler run
MaxFailures == 2        \* RPC errors the gateway raises in one run
MaxLines == 2           \* lines of hashes given to the batch report
MaxRetries == 3         \* largest retries value handed to safe_call

(* Program constants and the number representation *)

None == -1              \* Python None, for values that are otherwise >= 0
MAX_BLOCKS == 5000      \* main: "Limiting --blocks to 5000"
UlpPerWei == 10         \* from_wei(w, "gwei") = w / 10^9, in units of 1e-10
UlpPerMilli == 10000000 \* round(x, 3): 0.001 Gwei in units of 1e-10
QDen == 100             \* q is held in hundredths

NoReport == [none |-> TRUE]
NoBlock == [none |-> TRUE]
NoneObj == [none |-> TRUE]   \* Python None, for objects

----------------------------------------------------------------------------
(* Python helpers *)

Min(a, b) == IF a <= b THEN a ELSE b
Max(a, b) == IF a >= b THEN a ELSE b

\* dict.get(k, default) / getattr(obj, k, default)
Get(d, k, default) == IF k \in DOMAIN d THEN d[k] ELSE default

\* round() of the exact quotient a / b (a >= 0, b > 0), ties to even
RoundHalfEven(a, b) ==
    LET fl == a \div b
        r2 == 2 * (a % b)
    IN  IF r2 < b THEN fl
        ELSE IF r2 > b THEN fl + 1
        ELSE IF fl % 2 = 0 THEN fl ELSE fl + 1

\* len(range(a, b, s))
RangeLen(a, b, s) ==
    IF s > 0 THEN (IF a < b THEN ((b - a - 1) \div s) + 1 ELSE 0)
    ELSE IF s < 0 THEN (IF a > b THEN ((a - b - 1) \div (-s)) + 1 ELSE 0)
    ELSE 0

\* is x still inside range(a, b, s) when the loop variable has reached x
InRange(x, b, s) == IF s > 0 THEN x < b ELSE x > b

\* Web3.from_wei(w, "gwei") as a float
from_wei_gwei(w) == w * UlpPerWei

\* round(x, 3) of a Gwei float
round3(x) == RoundHalfEven(x, UlpPerMilli) * UlpPerMilli

sorted(xs) == SortSeq(xs, LAMBDA a, b : a < b)

RECURSIVE SeqMin(_)
SeqMin(xs) == IF Len(xs) = 1 THEN xs[1] ELSE Min(xs[1], SeqMin(Tail(xs)))

RECURSIVE SeqMax(_)
SeqMax(xs) == IF Len(xs) = 1 THEN xs[1] ELSE Max(xs[1], SeqMax(Tail(xs)))

\* statistics.median
median(xs) ==
    LET data == sorted(xs)
        len  == Len(xs)
        i    == len \div 2          \* 0-based index n // 2
    IN  IF len % 2 = 1 THEN data[i + 1]
        ELSE (data[i] + data[i + 1]) \div 2

\* one gateway call appended to the log
Call(op, arg) == [op |-> op, arg |-> arg]

----------------------------------------------------------------------------
(* fee-profile.py: pct *)

\* pct without the sort: the rank is taken in arrival order
pct_unsorted(vals, qq) ==
    IF Len(vals) = 0 THEN 0
    ELSE LET qc == Max(0, Min(QDen, qq))
             idx == RoundHalfEven(qc * (Len(vals) - 1), QDen)
         IN  vals[idx + 1]

\* pct with the index truncated instead of rounded
pct_floor_index(vals, qq) ==
    IF Len(vals) = 0 THEN 0
    ELSE LET qc == Max(0, Min(QDen, qq))
             sorted_vals == sorted(vals)
             idx == (qc * (Len(sorted_vals) - 1)) \div QDen
         IN  sorted_vals[idx + 1]

pct(vals, qq) ==
    IF Len(vals) = 0 THEN 0
    ELSE LET qc == Max(0, Min(QDen, qq))
             sorted_vals == sorted(vals)
             idx == RoundHalfEven(qc * (Len(sorted_vals) - 1), QDen)
         IN  sorted_vals[idx + 1]

----------------------------------------------------------------------------
(* fee-profile.py: sample_block_fees *)

\* classify_tx without the maxFeePerGas cap
classify_tx_uncapped(tx, bf) ==
    IF Get(tx, "type", 0) = 2
    THEN LET mpp == Get(tx, "maxPriorityFeePerGas", 0)
             effective == bf + mpp
         IN  <<from_wei_gwei(effective), from_wei_gwei(mpp)>>
    ELSE LET gp == Get(tx, "gasPrice", 0)
         IN  <<from_wei_gwei(gp), from_wei_gwei(Max(0, gp - bf))>>

\* classify_tx sending every type >= 2 down the fee-market path
classify_tx_type_ge2(tx, bf) ==
    IF Get(tx, "type", 0) >= 2
    THEN LET mpp == Get(tx, "maxPriorityFeePerGas", 0)
             mfp == Get(tx, "maxFeePerGas", 0)
             effective == Min(mfp, bf + mpp)
         IN  <<from_wei_gwei(effective), from_wei_gwei(mpp)>>
    ELSE LET gp == Get(tx, "gasPrice", 0)
         IN  <<from_wei_gwei(gp), from_wei_gwei(Max(0, gp - bf))>>

\* classify_tx without the clamp of the legacy tip at 0
classify_tx_unclamped(tx, bf) ==
    IF Get(tx, "type", 0) = 2
    THEN LET mpp == Get(tx, "maxPriorityFeePerGas", 0)
             mfp == Get(tx, "maxFeePerGas", 0)
             effective == Min(mfp, bf + mpp)
         IN  <<from_wei_gwei(effective), from_wei_gwei(mpp)>>
    ELSE LET gp == Get(tx, "gasPrice", 0)
         IN  <<from_wei_gwei(gp), from_wei_gwei(gp - bf)>>

\* the pair (eff entry, tip entry) appended for one transaction
classify_tx(tx, bf) ==
    IF Get(tx, "type", 0) = 2
    THEN LET mpp == Get(tx, "maxPriorityFeePerGas", 0)
             mfp == Get(tx, "maxFeePerGas", 0)
             effective == Min(mfp, bf + mpp)
         IN  <<from_wei_gwei(effective), from_wei_gwei(mpp)>>
    ELSE LET gp == Get(tx, "gasPrice", 0)
         IN  <<from_wei_gwei(gp), from_wei_gwei(Max(0, gp - bf))>>

\* returns <<eff, tip>>
sample_block_fees(block, base_fee_wei) ==
    LET bf == IF base_fee_wei = None \/ base_fee_wei = 0 THEN 0 ELSE base_fee_wei
        txs == block.transactions
    IN  << [i \in 1..Len(txs) |-> classify_tx(txs[i], bf)[1]],
           [i \in 1..Len(txs) |-> classify_tx(txs[i], bf)[2]] >>

\* analyze, line 112: the block's base fee, 0 when the block has none
block_base_fee(b) ==
    Get(b, "baseFeePerGas", Get(b, "base_fee_per_gas", 0))

----------------------------------------------------------------------------
(* fee-profile.py: analyze, the body of the sampling loop (lines 112-117)  *)
(* applied to one fetched block                                             *)

analyze_body(b, bfs, effs, tps) ==
    LET bf == block_base_fee(b)
        sampled == sample_block_fees(b, bf)
    IN  [basefees   |-> Append(bfs, from_wei_gwei(bf)),
         eff_prices |-> effs \o sampled[1],
         tips       |-> tps \o sampled[2]]

(* fee-profile.py: analyze, the statistics of the returned dict (146-166)  *)

\* p50 taken by pct, as p95 is
p50_of_nearest_rank(xs) == IF Len(xs) > 0 THEN round3(pct(xs, 50)) ELSE 0

p50_of(xs) == IF Len(xs) > 0 THEN round3(median(xs)) ELSE 0
p95_of(xs) == IF Len(xs) > 0 THEN round3(pct(xs, 95)) ELSE 0
min_of(xs) == IF Len(xs) > 0 THEN round3(SeqMin(xs)) ELSE 0
max_of(xs) == IF Len(xs) > 0 THEN round3(SeqMax(xs)) ELSE 0

zero_tip_count(tps) == Cardinality({i \in 1..Len(tps) : tps[i] = 0})

analyze_result(hd, st, a, bfs, effs, tps) ==
    [avgBlockTimeSec |-> 0,
     head |-> hd,
     sampledBlocks |-> RangeLen(hd, st - 1, -a.step),
     blockSpan |-> a.blocks,
     step |-> a.step,
     baseFeeGwei |-> [p50 |-> p50_of(bfs), p95 |-> p95_of(bfs),
                      min |-> min_of(bfs), max |-> max_of(bfs)],
     effectivePriceGwei |-> [p50 |-> p50_of(effs), p95 |-> p95_of(effs),
                             min |-> min_of(effs), max |-> max_of(effs),
                             count |-> Len(effs)],
     tipGweiApprox |-> [p50 |-> p50_of(tps), p95 |-> p95_of(tps),
                        min |-> min_of(tps), max |-> max_of(tps),
                        count |-> Len(tps),
                        countZero |-> zero_tip_count(tps)]]

(* fee-profile.py: main, the argument checks (204-212) *)

\* the check without the --step test
invalid_args_blocks_only(a) == a.blocks <= 0

invalid_args(a) == a.blocks <= 0 \/ a.step <= 0

\* no ceiling on --blocks
clamp_blocks_off(b) == b

clamp_blocks(b) == IF b > MAX_BLOCKS THEN MAX_BLOCKS ELSE b

----------------------------------------------------------------------------
(* Inputs *)

SeqsUpTo(S, k) == UNION {[1..m -> S] : m \in 0..k}

\* transactions handed to the classifier, amounts in wei
FeeWei == {0, 2, 12, 30}
BaseFeeWei == {0, 10, 25}
Type2Txs == [type : {2}, maxFeePerGas : FeeWei, maxPriorityFeePerGas : FeeWei]
LegacyTxs == [type : {0, 1, 3}, gasPrice : FeeWei] \cup [gasPrice : FeeWei]
ClassifierTxs == Type2Txs \cup LegacyTxs
ClassifierBlocks ==
    [transactions : SeqsUpTo(ClassifierTxs, MaxTxPerBlock), baseFeePerGas : BaseFeeWei]
    \cup [transactions : SeqsUpTo(ClassifierTxs, MaxTxPerBlock)]

\* samples handed to pct
PctValues == {from_wei_gwei(w) : w \in {0, 12, 27}}
Qs == {-50, 0, 25, 50, 95, 100, 150}

\* the profiler's command line and the chain it samples
ArgBlocks == {0, 1, 2, 10, 5000, 5001, 100001}
ArgSteps == {-1, 0, 1, 3, 2500}
ArgHeads == {None, 0, 1, 100, 5003}
GwHeads == {1, 100}
SamplerBlocks ==
    { [baseFeePerGas |-> 25000000,
       transactions |-> << [type |-> 2, maxFeePerGas |-> 30000000,
                            maxPriorityFeePerGas |-> 2000000],
                           [type |-> 0, gasPrice |-> 12000400] >>],
      [transactions |-> << [gasPrice |-> 12000000] >>],
      [baseFeePerGas |-> 25000000,
       transactions |-> << [type |-> 0, gasPrice |-> 12000000],
                           [type |-> 1, gasPrice |-> 30000000] >>],
      [baseFeePerGas |-> 10000000, transactions |-> << >>] }

\* the number of blocks a run with this command line samples
RunLength(a, gwh) ==
    LET hd == IF a.head # None THEN a.head ELSE gwh
        b  == Min(a.blocks, MAX_BLOCKS)
        st == Max(0, hd - b + 1)
    IN  IF a.blocks <= 0 \/ a.step <= 0 THEN 0 ELSE RangeLen(hd, st - 1, -a.step)

NoArgs == [none |-> TRUE]

----------------------------------------------------------------------------
(* Initial states *)

Idle ==
    /\ pc = "start"
    /\ outcome = ""
    /\ calls = << >>
    /\ head = None /\ start = None /\ n = None
    /\ basefees = << >> /\ eff_prices = << >> /\ tips = << >>
    /\ report = NoReport
    /\ result = None
    /\ failures = 0
    /\ rcpt = NoneObj /\ tx_obj = NoneObj /\ block_obj = NoneObj
    /\ latest = None /\ gas_efficiency = None
    /\ summary = NoneObj
    /\ hashes = << >> /\ pos = 0 /\ cache = << >> /\ rows = << >>
    /\ fetched = << >>
    /\ block_id = NoneObj /\ bundle_a = NoneObj /\ bundle_b = NoneObj
    /\ cmp = NoneObj /\ all_match = NoneObj

\* the scripts other than provider_consistency.py use one provider
NoProviders ==
    /\ w3a = NoneObj /\ w3b = NoneObj
    /\ hex_0x = TRUE

\* the scripts below do not use a transaction gateway
NoTxGateway ==
    /\ NoProviders
    /\ gw_txs = << >>
    /\ gw_raises = FALSE
    /\ gw_basefee = None

InitClassify ==
    /\ NoTxGateway
    /\ prog = "classify"
    /\ Idle
    /\ blk \in ClassifierBlocks
    /\ argv = NoArgs /\ args = NoArgs /\ gw_head = 0
    /\ values = << >> /\ q = 0

InitPct ==
    /\ NoTxGateway
    /\ prog = "pct"
    /\ Idle
    /\ values \in SeqsUpTo(PctValues, MaxLen)
    /\ q \in Qs
    /\ blk = NoBlock
    /\ argv = NoArgs /\ args = NoArgs /\ gw_head = 0

InitFeeProfile ==
    /\ NoTxGateway
    /\ prog = "fee_profile"
    /\ Idle
    /\ argv \in [blocks : ArgBlocks, step : ArgSteps, head : ArgHeads]
    /\ gw_head \in GwHeads
    /\ RunLength(argv, gw_head) <= MaxRun
    /\ args = argv
    /\ blk = NoBlock
    /\ values = << >> /\ q = 0


----------------------------------------------------------------------------
(* The pure functions applied to their inputs *)

\* analyze lines 112-117 on one block
ClassifyBlock ==
    /\ prog = "classify" /\ pc = "start"
    /\ LET r == analyze_body(blk, basefees, eff_prices, tips)
       IN  /\ basefees' = r.basefees
           /\ eff_prices' = r.eff_prices
           /\ tips' = r.tips
    /\ pc' = "done"
    /\ outcome' = "ok"
    /\ UNCHANGED <<prog, providerVars, verifyVars, calls, argv, args, gw_head, head, start, n, report,
                   blk, values, q, result,
                   gwVars, failures, txVars, batchVars>>

ApplyPct ==
    /\ prog = "pct" /\ pc = "start"
    /\ result' = pct(values, q)
    /\ pc' = "done"
    /\ outcome' = "ok"
    /\ UNCHANGED <<prog, providerVars, verifyVars, calls, argv, args, gw_head, head, start, n, basefees,
                   eff_prices, tips, report, blk, values, q,
                   gwVars, failures, txVars, batchVars>>

----------------------------------------------------------------------------
(* fee-profile.py: main, connect, analyze *)

\* main 200-212: reject non-positive --blocks / --step, clamp --blocks
fee_profile_main ==
    /\ prog = "fee_profile" /\ pc = "start"
    /\ IF invalid_args(args)
       THEN /\ pc' = "done"
            /\ outcome' = "exit(1)"
            /\ args' = args
       ELSE /\ pc' = "connect"
            /\ outcome' = outcome
            /\ args' = [args EXCEPT !.blocks = clamp_blocks(args.blocks)]
    /\ UNCHANGED <<prog, providerVars, verifyVars, calls, argv, gw_head, head, start, n, basefees,
                   eff_prices, tips, report, blk, values, q, result,
                   gwVars, failures, txVars, batchVars>>

\* connect 39-50
fee_profile_connect ==
    /\ prog = "fee_profile" /\ pc = "connect"
    /\ \E connected \in BOOLEAN :
         IF ~connected
         THEN /\ calls' = Append(calls, Call("is_connected", None))
              /\ pc' = "done"
              /\ outcome' = "exit(1)"
         ELSE /\ calls' = calls \o << Call("is_connected", None),
                                      Call("block_number", None),
                                      Call("chain_id", None) >>
              /\ pc' = "analyze"
              /\ outcome' = outcome
    /\ UNCHANGED <<prog, providerVars, verifyVars, argv, args, gw_head, head, start, n, basefees,
                   eff_prices, tips, report, blk, values, q, result,
                   gwVars, failures, txVars, batchVars>>

\* analyze 99-107
analyze_start ==
    /\ prog = "fee_profile" /\ pc = "analyze"
    /\ LET hd == IF args.head # None THEN args.head ELSE gw_head
       IN  /\ head' = hd
           /\ start' = Max(0, hd - args.blocks + 1)
           /\ n' = hd
    /\ calls' = IF args.head # None THEN calls
                ELSE Append(calls, Call("block_number", None))
    /\ pc' = "loop"
    /\ UNCHANGED <<prog, providerVars, verifyVars, outcome, argv, args, gw_head, basefees, eff_prices,
                   tips, report, blk, values, q, result,
                   gwVars, failures, txVars, batchVars>>

\* analyze 110-121: one iteration of for n in range(head, start - 1, -step)
analyze_loop ==
    /\ prog = "fee_profile" /\ pc = "loop"
    /\ args.step # 0
    /\ InRange(n, start - 1, -args.step)
    /\ \E b \in SamplerBlocks :
         LET r == analyze_body(b, basefees, eff_prices, tips)
         IN  /\ blk' = b
             /\ basefees' = r.basefees
             /\ eff_prices' = r.eff_prices
             /\ tips' = r.tips
    /\ calls' = Append(calls, Call("get_block_full", n))
    /\ n' = n - args.step
    /\ UNCHANGED <<prog, providerVars, verifyVars, pc, outcome, argv, args, gw_head, head, start,
                   report, values, q, result,
                   gwVars, failures, txVars, batchVars>>

\* analyze 110, 123-167: the loop is over (range() raises on step 0); the
\* block-time estimate reads the undefined name `block` (line 129) when it
\* is taken; otherwise the dict is returned
analyze_finish ==
    /\ prog = "fee_profile" /\ pc = "loop"
    /\ args.step = 0 \/ ~InRange(n, start - 1, -args.step)
    /\ IF args.step = 0
       THEN /\ pc' = "done"
            /\ outcome' = "ValueError"
            /\ calls' = calls
            /\ report' = report
       ELSE IF Len(basefees) >= 2 /\ head > start
       THEN /\ pc' = "done"
            /\ outcome' = "NameError"
            /\ calls' = calls \o << Call("get_block", head), Call("get_block", start) >>
            /\ report' = report
       ELSE /\ pc' = "output"
            /\ outcome' = outcome
            /\ calls' = calls \o << Call("chain_id", None), Call("chain_id", None) >>
            /\ report' = analyze_result(head, start, args, basefees, eff_prices, tips)
    /\ UNCHANGED <<prog, providerVars, verifyVars, argv, args, gw_head, head, start, n, basefees,
                   eff_prices, tips, blk, values, q, result,
                   gwVars, failures, txVars, batchVars>>

\* main 217-245: --json prints the payload; the text output reads the
\* undefined name `block` (line 239)
fee_profile_output ==
    /\ prog = "fee_profile" /\ pc = "output"
    /\ \E json \in BOOLEAN :
         outcome' = IF json THEN "ok" ELSE "NameError"
    /\ pc' = "done"
    /\ UNCHANGED <<prog, providerVars, verifyVars, calls, argv, args, gw_head, head, start, n, basefees,
                   eff_prices, tips, report, blk, values, q, result,
                   gwVars, failures, txVars, batchVars>>

----------------------------------------------------------------------------
(* The gateway seen by the transaction scripts *)

\* what the chain holds for one transaction hash
Scn(st, bn, rc, eff, gp, hf, gas, ty) ==
    [state |-> st, blockNumber |-> bn, receipt |-> rc, effectiveGasPrice |-> eff,
     gasPrice |-> gp, hasFrom |-> hf, gas |-> gas, type |-> ty]

ScnAbsent  == Scn("absent", None, "absent", None, 0, FALSE, 0, 0)
ScnPending == Scn("pending", None, "absent", None, 12, TRUE, 200, 2)
ScnMined ==
    { Scn("mined", 3, "ok", 12, 12, TRUE, 200, 2),
      Scn("mined", 3, "ok", None, 5, FALSE, 0, 0),
      Scn("mined", 7, "ok", 5, 5, TRUE, 200, 0),
      Scn("mined", 7, "absent", None, 5, TRUE, 200, 0),
      Scn("mined", 3, "null_block", 12, 12, TRUE, 200, 2) }
Scenarios == {ScnAbsent, ScnPending} \cup ScnMined

GasUsed == 100
ChainBaseFees == {None, 10}
Latests == {2, 5, 9}

\* the receipt the node holds, NoneObj when it holds none
receipt_of(sc) ==
    IF sc.state = "mined" /\ sc.receipt # "absent"
    THEN ( [blockNumber |-> IF sc.receipt = "null_block" THEN None ELSE sc.blockNumber,
            gasUsed |-> GasUsed,
            status |-> 1]
           @@ (IF sc.effectiveGasPrice # None
               THEN [effectiveGasPrice |-> sc.effectiveGasPrice] ELSE << >>)
           @@ (IF sc.hasFrom THEN [from |-> "0xfrom", to |-> "0xto"] ELSE << >>) )
    ELSE NoneObj

\* the transaction object the node holds, NoneObj when it holds none
transaction_of(sc) ==
    IF sc.state = "absent" THEN NoneObj
    ELSE [blockNumber |-> sc.blockNumber, gas |-> sc.gas, gasPrice |-> sc.gasPrice,
          type |-> sc.type, from |-> "0xfrom", to |-> "0xto", value |-> 0]

\* the block the node holds at a number
block_of(bn, basefee) ==
    [number |-> bn, timestamp |-> 1000 + 12 * bn, miner |-> "0xminer"]
    @@ (IF basefee # None THEN [baseFeePerGas |-> basefee] ELSE << >>)

Returned(v) == [raised |-> FALSE, value |-> v]
Raised(e) == [raised |-> TRUE, error |-> e]

\* an RPC error (timeout, unreachable endpoint) can answer any call
RpcErrors == IF failures < MaxFailures THEN {Raised("RpcError")} ELSE {}

\* a missing object comes back as None or as TransactionNotFound
Lookup(v) ==
    IF v = NoneObj /\ gw_raises THEN Raised("TransactionNotFound") ELSE Returned(v)

get_transaction_receipt(id) == {Lookup(receipt_of(gw_txs[id]))} \cup RpcErrors
get_transaction(id) == {Lookup(transaction_of(gw_txs[id]))} \cup RpcErrors
get_block(bn) == {Returned(block_of(bn, gw_basefee))} \cup RpcErrors
block_number == {Returned(l) : l \in Latests} \cup RpcErrors
chain_id == {Returned(1)} \cup RpcErrors

IsRpcError(a) == a.raised /\ a.error = "RpcError"
CountFailure(a) == failures' = IF IsRpcError(a) THEN failures + 1 ELSE failures

\* Web3.from_wei(w, "ether") as a float, held in units of 1e-19 ether
from_wei_ether(w) == w * UlpPerWei

\* is_tx_hash / parse_hash: "0x" followed by 64 characters
is_tx_hash(h) == h.has0x /\ h.len = 66

Hash(id, has0x, len) == [id |-> id, has0x |-> has0x, len |-> len]
HashInputs == {Hash(1, TRUE, 66), Hash(1, FALSE, 66), Hash(1, TRUE, 10)}

InitTxScript ==
    /\ Idle
    /\ NoProviders
    /\ argv \in [tx_hash : HashInputs]
    /\ args = argv
    /\ gw_txs \in [{1} -> Scenarios]
    /\ gw_raises \in BOOLEAN
    /\ gw_basefee \in ChainBaseFees
    /\ gw_head = 0 /\ blk = NoBlock /\ values = << >> /\ q = 0

InitApp2 == prog = "app2" /\ InitTxScript

----------------------------------------------------------------------------
(* App2.py: main, connect, fetch_tx_summary *)

\* main 167-177
app2_main ==
    /\ prog = "app2" /\ pc = "start"
    /\ IF ~is_tx_hash(args.tx_hash)
       THEN pc' = "done" /\ outcome' = "exit(1)"
       ELSE pc' = "connect" /\ outcome' = outcome
    /\ UNCHANGED <<prog, providerVars, verifyVars, calls, argv, args, feeVars, gwVars, failures, txVars,
                   batchVars>>

\* main 180-185, connect 32-37: the chain id probe swallows its exception
app2_connect ==
    /\ prog = "app2" /\ pc = "connect"
    /\ \E connected \in BOOLEAN :
         IF ~connected
         THEN /\ calls' = Append(calls, Call("is_connected", None))
              /\ pc' = "done" /\ outcome' = "exit(1)"
              /\ failures' = failures
         ELSE \E a \in chain_id :
                /\ calls' = calls \o << Call("is_connected", None),
                                        Call("chain_id", None) >>
                /\ CountFailure(a)
                /\ pc' = "chain_id" /\ outcome' = outcome
    /\ UNCHANGED <<prog, providerVars, verifyVars, argv, args, feeVars, gwVars, txVars, batchVars>>

\* fetch_tx_summary 54
app2_chain_id ==
    /\ prog = "app2" /\ pc = "chain_id"
    /\ \E a \in chain_id :
         /\ calls' = Append(calls, Call("chain_id", None))
         /\ CountFailure(a)
         /\ IF a.raised
            THEN pc' = "done" /\ outcome' = "RpcError"
            ELSE pc' = "receipt" /\ outcome' = outcome
    /\ UNCHANGED <<prog, providerVars, verifyVars, argv, args, feeVars, gwVars, txVars, batchVars>>

\* fetch_tx_summary 56-61: any exception of the receipt call is exit status 2
app2_receipt ==
    /\ prog = "app2" /\ pc = "receipt"
    /\ \E a \in get_transaction_receipt(args.tx_hash.id) :
         /\ calls' = Append(calls, Call("get_transaction_receipt", args.tx_hash.id))
         /\ CountFailure(a)
         /\ IF a.raised
            THEN /\ pc' = "done" /\ outcome' = "exit(2) failed to fetch receipt"
                 /\ rcpt' = rcpt
            ELSE /\ pc' = "pending_check" /\ outcome' = outcome
                 /\ rcpt' = a.value
    /\ UNCHANGED <<prog, providerVars, verifyVars, argv, args, feeVars, gwVars, tx_obj, block_obj, latest,
                   gas_efficiency, summary, batchVars>>

\* fetch_tx_summary 63-70: a transaction without a block number is pending
app2_pending_check ==
    /\ prog = "app2" /\ pc = "pending_check"
    /\ \E a \in get_transaction(args.tx_hash.id) :
         /\ calls' = Append(calls, Call("get_transaction", args.tx_hash.id))
         /\ CountFailure(a)
         /\ IF a.raised
            THEN /\ pc' = "receipt_check" /\ outcome' = outcome
                 /\ tx_obj' = tx_obj
            ELSE /\ tx_obj' = a.value
                 /\ IF a.value # NoneObj /\ a.value.blockNumber = None
                    THEN pc' = "done" /\ outcome' = "exit(0) pending"
                    ELSE pc' = "receipt_check" /\ outcome' = outcome
    /\ UNCHANGED <<prog, providerVars, verifyVars, argv, args, feeVars, gwVars, rcpt, block_obj, latest,
                   gas_efficiency, summary, batchVars>>

\* (rcpt.gasUsed / gas_limit) * 100 if gas_limit else None, rounded to two
\* decimals, in hundredths of a percent
gas_efficiency_of(gasUsed, gas_limit) ==
    IF gas_limit # 0 THEN RoundHalfEven(gasUsed * 10000, gas_limit) ELSE None

\* the try block of lines 74-77 and 85-90: the transaction is fetched again
\* and any exception (also the AttributeError of a None object) is swallowed
gas_efficiency_try(a, r) ==
    IF a.raised \/ a.value = NoneObj \/ r = NoneObj THEN None
    ELSE gas_efficiency_of(r.gasUsed, a.value.gas)

\* fetch_tx_summary 72-82: the repeated fetch of lines 74-77, then the test
\* of the receipt
app2_receipt_check ==
    /\ prog = "app2" /\ pc = "receipt_check"
    /\ \E a \in get_transaction(args.tx_hash.id) :
         /\ calls' = Append(calls, Call("get_transaction", args.tx_hash.id))
         /\ CountFailure(a)
         /\ tx_obj' = IF a.raised THEN tx_obj ELSE a.value
         /\ gas_efficiency' = gas_efficiency_try(a, rcpt)
    /\ IF rcpt = NoneObj \/ rcpt.blockNumber = None
       THEN pc' = "done" /\ outcome' = "exit(0) not found or not yet included"
       ELSE pc' = "gas_efficiency" /\ outcome' = outcome
    /\ UNCHANGED <<prog, providerVars, verifyVars, argv, args, feeVars, gwVars, rcpt, block_obj, latest,
                   summary, batchVars>>

\* fetch_tx_summary 84-90
app2_gas_efficiency ==
    /\ prog = "app2" /\ pc = "gas_efficiency"
    /\ \E a \in get_transaction(args.tx_hash.id) :
         /\ calls' = Append(calls, Call("get_transaction", args.tx_hash.id))
         /\ CountFailure(a)
         /\ tx_obj' = IF a.raised THEN tx_obj ELSE a.value
         /\ gas_efficiency' = gas_efficiency_try(a, rcpt)
    /\ pc' = "block"
    /\ UNCHANGED <<prog, providerVars, verifyVars, outcome, argv, args, feeVars, gwVars, rcpt, block_obj,
                   latest, summary, batchVars>>

\* fetch_tx_summary 93-99
app2_get_block ==
    /\ prog = "app2" /\ pc = "block"
    /\ \E a \in get_block(rcpt.blockNumber) :
         /\ calls' = Append(calls, Call("get_block", rcpt.blockNumber))
         /\ CountFailure(a)
         /\ IF a.raised
            THEN /\ pc' = "done" /\ outcome' = "exit(2) failed to fetch tx block"
                 /\ block_obj' = block_obj
            ELSE /\ pc' = "latest" /\ outcome' = outcome
                 /\ block_obj' = a.value
    /\ UNCHANGED <<prog, providerVars, verifyVars, argv, args, feeVars, gwVars, rcpt, tx_obj, latest,
                   gas_efficiency, summary, batchVars>>

\* fetch_tx_summary 103
confirmations_of(lat, bn) == Max(0, lat - bn)

\* fetch_tx_summary 105-113: the receipt's effectiveGasPrice, else the
\* receipt's gasPrice, else 0
app2_gas_price_wei(r) ==
    LET e == Get(r, "effectiveGasPrice", None)
    IN  IF e # None THEN e ELSE Get(r, "gasPrice", 0)

\* fetch_tx_summary 115-139: the returned dict
app2_summary_of(r, b, lat, geff) ==
    LET gas_price_wei == app2_gas_price_wei(r)
        total_fee_wei == r.gasUsed * gas_price_wei
    IN  [gasEfficiency |-> geff,
         from |-> Get(r, "from", "N/A"),
         to |-> Get(r, "to", "N/A"),
         status |-> Get(r, "status", 0),
         blockNumber |-> r.blockNumber,
         timestamp |-> b.timestamp,
         miner |-> Get(b, "miner", "N/A"),
         confirmations |-> confirmations_of(lat, r.blockNumber),
         gasUsed |-> r.gasUsed,
         gasPriceGwei |-> from_wei_gwei(gas_price_wei),
         totalFeeEth |-> from_wei_ether(total_fee_wei),
         baseFeeAtTxGwei |-> from_wei_gwei(Get(b, "baseFeePerGas", 0))]

\* fetch_tx_summary 101-139 and the printing of main 189-242
app2_summary ==
    /\ prog = "app2" /\ pc = "latest"
    /\ \E a \in block_number :
         /\ calls' = Append(calls, Call("block_number", None))
         /\ CountFailure(a)
         /\ IF a.raised
            THEN /\ pc' = "done" /\ outcome' = "RpcError"
                 /\ latest' = latest /\ summary' = summary
            ELSE /\ pc' = "done" /\ outcome' = "ok"
                 /\ latest' = a.value
                 /\ summary' = app2_summary_of(rcpt, block_obj, a.value, gas_efficiency)
    /\ UNCHANGED <<prog, providerVars, verifyVars, argv, args, feeVars, gwVars, rcpt, tx_obj, block_obj,
                   gas_efficiency, batchVars>>

----------------------------------------------------------------------------
(* app1.py: main, connect, fetch_gas_data, fetch_tx_data *)

InitApp1 == prog = "app1" /\ InitTxScript

CONNECT_ATTEMPTS == 3

\* main 90-91, connect 22-33: up to three connection attempts, then the
\* chain id is read twice for the banner
app1_connect ==
    /\ prog = "app1" /\ pc = "start"
    /\ \E k \in 1..CONNECT_ATTEMPTS, connected \in BOOLEAN :
         /\ (~connected => k = CONNECT_ATTEMPTS)
         /\ IF ~connected
            THEN /\ calls' = calls \o [i \in 1..k |-> Call("is_connected", None)]
                 /\ pc' = "done" /\ outcome' = "exit(1)"
                 /\ failures' = failures
            ELSE \E a \in chain_id :
                   /\ CountFailure(a)
                   /\ IF a.raised
                      THEN /\ calls' = calls \o [i \in 1..k |-> Call("is_connected", None)]
                                         \o << Call("chain_id", None) >>
                           /\ pc' = "done" /\ outcome' = "RpcError"
                      ELSE /\ calls' = calls \o [i \in 1..k |-> Call("is_connected", None)]
                                         \o << Call("chain_id", None), Call("chain_id", None) >>
                           /\ pc' = "parse_hash" /\ outcome' = outcome
    /\ UNCHANGED <<prog, providerVars, verifyVars, argv, args, feeVars, gwVars, txVars, batchVars>>

\* main 93, parse_hash 35-39
app1_parse_hash ==
    /\ prog = "app1" /\ pc = "parse_hash"
    /\ IF ~is_tx_hash(args.tx_hash)
       THEN pc' = "done" /\ outcome' = "exit(1)"
       ELSE pc' = "gas_data" /\ outcome' = outcome
    /\ UNCHANGED <<prog, providerVars, verifyVars, calls, argv, args, feeVars, gwVars, failures, txVars,
                   batchVars>>

get_block_latest == {Returned(block_of(l, gw_basefee)) : l \in Latests} \cup RpcErrors

\* main 96, fetch_gas_data 41-50: the latest block and the node's gas price
app1_fetch_gas_data ==
    /\ prog = "app1" /\ pc = "gas_data"
    /\ \E a \in get_block_latest :
         IF a.raised
         THEN /\ calls' = Append(calls, Call("get_block", "latest"))
              /\ CountFailure(a)
              /\ pc' = "done" /\ outcome' = "RpcError"
              /\ block_obj' = block_obj
         ELSE \E failed \in {f \in BOOLEAN : f => failures < MaxFailures} :
                /\ calls' = calls \o << Call("get_block", "latest"), Call("gas_price", None) >>
                /\ failures' = IF failed THEN failures + 1 ELSE failures
                /\ block_obj' = a.value
                /\ IF failed
                   THEN pc' = "done" /\ outcome' = "RpcError"
                   ELSE pc' = "tx_data" /\ outcome' = outcome
    /\ UNCHANGED <<prog, providerVars, verifyVars, argv, args, feeVars, gwVars, rcpt, tx_obj, latest,
                   gas_efficiency, summary, batchVars>>

\* fetch_tx_data 56-79 once the receipt and (if fetched) the transaction are
\* at hand; t is NoneObj when the receipt carries from/to
app1_tx_data_of(r, t) ==
    LET eff_price == Get(r, "effectiveGasPrice", None)
        gas_price_wei ==
            IF eff_price # None THEN eff_price
            ELSE IF t = NoneObj THEN 0
            ELSE Get(t, "gasPrice", 0)
    IN  [from |-> IF t = NoneObj THEN r.from ELSE t.from,
         to |-> IF t = NoneObj THEN r.to ELSE t.to,
         status |-> r.status,
         gas_used |-> r.gasUsed,
         fee_eth |-> from_wei_ether(r.gasUsed * gas_price_wei),
         block_number |-> r.blockNumber]

\* main 98, fetch_tx_data 52-79: no exception is handled; a None receipt
\* fails on rcpt["from"]
app1_fetch_tx_data ==
    /\ prog = "app1" /\ pc = "tx_data"
    /\ \E a \in get_transaction_receipt(args.tx_hash.id) :
         IF a.raised \/ a.value = NoneObj \/ "from" \in DOMAIN a.value
         THEN /\ calls' = Append(calls, Call("get_transaction_receipt", args.tx_hash.id))
              /\ CountFailure(a)
              /\ tx_obj' = tx_obj
              /\ IF a.raised
                 THEN /\ pc' = "done" /\ outcome' = a.error
                      /\ rcpt' = rcpt /\ summary' = summary
                 ELSE IF a.value = NoneObj
                 THEN /\ pc' = "done" /\ outcome' = "TypeError"
                      /\ rcpt' = a.value /\ summary' = summary
                 ELSE /\ pc' = "confirmations" /\ outcome' = outcome
                      /\ rcpt' = a.value
                      /\ summary' = app1_tx_data_of(a.value, NoneObj)
         ELSE \E b \in get_transaction(args.tx_hash.id) :
                /\ calls' = calls \o << Call("get_transaction_receipt", args.tx_hash.id),
                                        Call("get_transaction", args.tx_hash.id) >>
                /\ CountFailure(b)
                /\ rcpt' = a.value
                /\ IF b.raised
                   THEN /\ pc' = "done" /\ outcome' = b.error
                        /\ tx_obj' = tx_obj /\ summary' = summary
                   ELSE IF b.value = NoneObj
                   THEN /\ pc' = "done" /\ outcome' = "TypeError"
                        /\ tx_obj' = b.value /\ summary' = summary
                   ELSE /\ pc' = "confirmations" /\ outcome' = outcome
                        /\ tx_obj' = b.value
                        /\ summary' = app1_tx_data_of(a.value, b.value)
    /\ UNCHANGED <<prog, providerVars, verifyVars, argv, args, feeVars, gwVars, block_obj, latest,
                   gas_efficiency, batchVars>>

\* main 109
app1_confirmations_of(latest_block, bn) == latest_block - bn

\* main 100-124: the latest block number is read after the receipt; the
\* subtraction fails on a receipt without a block number
app1_confirmations ==
    /\ prog = "app1" /\ pc = "confirmations"
    /\ \E a \in block_number :
         /\ calls' = Append(calls, Call("block_number", None))
         /\ CountFailure(a)
         /\ IF a.raised
            THEN /\ pc' = "done" /\ outcome' = "RpcError"
                 /\ latest' = latest /\ summary' = summary
            ELSE IF summary.block_number = None
            THEN /\ pc' = "done" /\ outcome' = "TypeError"
                 /\ latest' = a.value /\ summary' = summary
            ELSE /\ pc' = "done" /\ outcome' = "ok"
                 /\ latest' = a.value
                 /\ summary' = [confirmations |->
                                   app1_confirmations_of(a.value, summary.block_number)]
                               @@ summary
    /\ UNCHANGED <<prog, providerVars, verifyVars, argv, args, feeVars, gwVars, rcpt, tx_obj, block_obj,
                   gas_efficiency, batchVars>>

----------------------------------------------------------------------------
(* batch_fee_report.py: read_hashes, safe_call, summarize_tx, main *)

RETRIES == 2            \* safe_call: retries=2

LineInputs == {Hash(1, TRUE, 66), Hash(2, TRUE, 66), Hash(1, FALSE, 66)}

BatchScenarios ==
    { ScnAbsent, ScnPending,
      Scn("mined", 3, "ok", 12, 12, TRUE, 200, 2),
      Scn("mined", 3, "ok", None, 5, FALSE, 0, 0),
      Scn("mined", 7, "ok", 5, 5, TRUE, 200, 0),
      Scn("mined", 3, "null_block", 12, 12, TRUE, 200, 2) }

InitBatch ==
    /\ prog = "batch"
    /\ Idle
    /\ NoProviders
    /\ argv \in [lines : SeqsUpTo(LineInputs, MaxLines)]
    /\ args = argv
    /\ gw_txs \in [1..2 -> BatchScenarios]
    /\ gw_raises \in BOOLEAN
    /\ gw_basefee \in ChainBaseFees
    /\ gw_head = 0 /\ blk = NoBlock /\ values = << >> /\ q = 0

\* read_hashes 47-58: the lines that are transaction hashes, in order
read_hashes(lines) == SelectSeq(lines, is_tx_hash)

\* safe_call 60-68.  A run is the answers of the attempts made, in order:
\* every attempt but the last raised, and the last one either returned or
\* was attempt number `retries`.  `normal` is what the node answers when no
\* RPC error occurs.
safe_call_runs(normal, retries) ==
    { r \in UNION {[1..k -> {normal, Raised("RpcError")}] : k \in 1..retries} :
        /\ \A i \in 1..(Len(r) - 1) : r[i].raised
        /\ ~r[Len(r)].raised \/ Len(r) = retries
        /\ Cardinality({i \in 1..Len(r) : IsRpcError(r[i])}) <= MaxFailures - failures }
    \cup (IF retries <= 0 THEN {<< >>} ELSE {})

\* what safe_call hands back for a run: the value returned, the exception
\* re-raised by the last attempt, or None when the loop body never ran
safe_call(r) == IF Len(r) = 0 THEN Returned(NoneObj) ELSE r[Len(r)]

RpcErrorsIn(r) == Cardinality({i \in 1..Len(r) : IsRpcError(r[i])})

\* main 174-181
batch_main ==
    /\ prog = "batch" /\ pc = "start"
    /\ hashes' = read_hashes(args.lines)
    /\ IF Len(read_hashes(args.lines)) = 0
       THEN pc' = "done" /\ outcome' = "exit(1)"
       ELSE pc' = "connect" /\ outcome' = outcome
    /\ UNCHANGED <<prog, providerVars, verifyVars, calls, argv, args, feeVars, gwVars, failures, txVars,
                   pos, cache, fetched, rows>>

\* main 183-186, connect 24-32
batch_connect ==
    /\ prog = "batch" /\ pc = "connect"
    /\ \E connected \in BOOLEAN :
         IF ~connected
         THEN /\ calls' = Append(calls, Call("is_connected", None))
              /\ pc' = "done" /\ outcome' = "exit(1)"
              /\ failures' = failures /\ latest' = latest /\ pos' = pos
         ELSE \E a \in block_number :
                /\ calls' = calls \o << Call("is_connected", None), Call("chain_id", None),
                                        Call("chain_id", None), Call("block_number", None) >>
                /\ CountFailure(a)
                /\ IF a.raised
                   THEN /\ pc' = "done" /\ outcome' = "RpcError"
                        /\ latest' = latest /\ pos' = pos
                   ELSE /\ pc' = "receipt" /\ outcome' = outcome
                        /\ latest' = a.value /\ pos' = 1
    /\ UNCHANGED <<prog, providerVars, verifyVars, argv, args, feeVars, gwVars, rcpt, tx_obj, block_obj,
                   gas_efficiency, summary, hashes, cache, fetched, rows>>

Attempts(op, arg, r) == [i \in 1..Len(r) |-> Call(op, arg)]

\* summarize_tx 74-77 (and main 189-196 around it)
batch_receipt ==
    /\ prog = "batch" /\ pc = "receipt"
    /\ pos <= Len(hashes)
    /\ LET id == hashes[pos].id
       IN  \E r \in safe_call_runs(Lookup(receipt_of(gw_txs[id])), RETRIES) :
             /\ calls' = calls \o Attempts("get_transaction_receipt", id, r)
             /\ failures' = failures + RpcErrorsIn(r)
             /\ IF safe_call(r).raised
                THEN /\ pos' = pos + 1
                     /\ UNCHANGED <<pc, rcpt, rows>>
                ELSE IF safe_call(r).value = NoneObj
                        \/ safe_call(r).value.blockNumber = None
                THEN /\ rows' = Append(rows, [txHash |-> id,
                                              statusText |-> "pending_or_not_found"])
                     /\ pos' = pos + 1
                     /\ rcpt' = safe_call(r).value
                     /\ pc' = pc
                ELSE /\ rcpt' = safe_call(r).value
                     /\ pc' = "tx"
                     /\ UNCHANGED <<pos, rows>>
    /\ UNCHANGED <<prog, providerVars, verifyVars, outcome, argv, args, feeVars, gwVars, tx_obj, block_obj,
                   latest, gas_efficiency, summary, hashes, cache, fetched>>

\* summarize_tx 79-80
batch_tx ==
    /\ prog = "batch" /\ pc = "tx"
    /\ LET id == hashes[pos].id
       IN  \E r \in safe_call_runs(Lookup(transaction_of(gw_txs[id])), RETRIES) :
             /\ calls' = calls \o Attempts("get_transaction", id, r)
             /\ failures' = failures + RpcErrorsIn(r)
             /\ IF safe_call(r).raised
                THEN /\ pos' = pos + 1
                     /\ pc' = "receipt"
                     /\ tx_obj' = tx_obj
                ELSE /\ tx_obj' = safe_call(r).value
                     /\ pc' = "block"
                     /\ pos' = pos
    /\ UNCHANGED <<prog, providerVars, verifyVars, outcome, argv, args, feeVars, gwVars, rcpt, block_obj,
                   latest, gas_efficiency, summary, hashes, cache, fetched, rows>>

tx_type_label(tt) ==
    IF tt = 0 THEN "Legacy" ELSE IF tt = 1 THEN "AccessList"
    ELSE IF tt = 2 THEN "EIP-1559" ELSE "Unknown"

\* summarize_tx 91-93
batch_eff_price_wei(r, t) ==
    LET e == Get(r, "effectiveGasPrice", None)
    IN  IF e # None THEN e ELSE Get(t, "gasPrice", 0)

\* summarize_tx 95
tip_wei_of(eff_price_wei, base_fee_wei) == Max(0, eff_price_wei - base_fee_wei)

\* summarize_tx 88-132: the row built from receipt, transaction and block
summarize_row(id, r, t, b, latest_block) ==
    LET block_num == r.blockNumber
        base_fee_wei == Get(b, "baseFeePerGas", 0)
        eff_price_wei == batch_eff_price_wei(r, t)
        tip_wei == tip_wei_of(eff_price_wei, base_fee_wei)
        gas_limit == Get(t, "gas", 0)
    IN  [txHash |-> id,
         status |-> r.status,
         blockNumber |-> block_num,
         timestamp |-> b.timestamp,
         confirmations |-> Max(0, latest_block - block_num),
         from |-> t.from,
         to |-> t.to,
         gasUsed |-> r.gasUsed,
         gasLimit |-> gas_limit,
         gasEfficiencyPct |-> gas_efficiency_of(r.gasUsed, gas_limit),
         effectiveGasPriceGwei |-> from_wei_gwei(eff_price_wei),
         baseFeeAtTxGwei |-> from_wei_gwei(base_fee_wei),
         tipAtTxGwei |-> from_wei_gwei(tip_wei),
         totalFeeEth |-> from_wei_ether(r.gasUsed * eff_price_wei),
         txType |-> tx_type_label(Get(t, "type", 0))]

\* summarize_tx 86 with the store left out
block_cache_put_nothing(c, block_num, b) == c

\* summarize_tx 86: block_cache[block_num] = block
block_cache_put(c, block_num, b) == (block_num :> b) @@ c

\* summarize_tx 83: block_cache.get(block_num)
block_cache_get(c, block_num) ==
    IF block_num \in DOMAIN c THEN c[block_num] ELSE NoneObj

\* summarize_tx 82-132
batch_block ==
    /\ prog = "batch" /\ pc = "block"
    /\ LET id == hashes[pos].id
           block_num == rcpt.blockNumber
           cached == block_cache_get(cache, block_num)
       IN  IF cached # NoneObj
           THEN /\ block_obj' = cached
                /\ rows' = Append(rows, summarize_row(id, rcpt, tx_obj, cached, latest))
                /\ UNCHANGED <<calls, failures, cache, fetched>>
           ELSE \E r \in safe_call_runs(Returned(block_of(block_num, gw_basefee)), RETRIES) :
                  /\ calls' = calls \o Attempts("get_block", block_num, r)
                  /\ failures' = failures + RpcErrorsIn(r)
                  /\ IF safe_call(r).raised
                     THEN UNCHANGED <<block_obj, cache, fetched, rows>>
                     ELSE /\ block_obj' = safe_call(r).value
                          /\ cache' = block_cache_put(cache, block_num, safe_call(r).value)
                          /\ fetched' = Append(fetched, block_num)
                          /\ rows' = Append(rows, summarize_row(id, rcpt, tx_obj,
                                                    safe_call(r).value, latest))
    /\ pos' = pos + 1
    /\ pc' = "receipt"
    /\ UNCHANGED <<prog, providerVars, verifyVars, outcome, argv, args, feeVars, gwVars, rcpt, tx_obj,
                   latest, gas_efficiency, summary, hashes>>

\* main 198-209: the rows are written out; --json reads the chain id twice
batch_finish ==
    /\ prog = "batch" /\ pc = "receipt"
    /\ pos > Len(hashes)
    /\ \E json \in BOOLEAN :
         calls' = IF json THEN calls \o << Call("chain_id", None), Call("chain_id", None) >>
                  ELSE calls
    /\ pc' = "done"
    /\ outcome' = "ok"
    /\ UNCHANGED <<prog, providerVars, verifyVars, argv, args, feeVars, gwVars, failures, txVars, batchVars>>

----------------------------------------------------------------------------
(* provider_consistency.py: commitments, bundles, compare_dicts *)

\* network_name 31-32
network_name(cid) ==
    IF cid = 1 THEN "Ethereum Mainnet"
    ELSE IF cid = 10 THEN "Optimism"
    ELSE "Unknown (chain ID " \o ToString(cid) \o ")"

\* is_tx_hash 33-45: 66 characters, "0x", then hexadecimal digits
is_tx_hash_hex(h) == h.len = 66 /\ h.has0x /\ h.hex

\* bytes are sequences of numbers 0..255, strings of hexadecimal digits are
\* sequences of characters
HexDigits ==
    <<"0", "1", "2", "3", "4", "5", "6", "7", "8", "9", "a", "b", "c", "d", "e", "f">>

HexVal(c) == (CHOOSE i \in 1..16 : HexDigits[i] = c) - 1

\* bytes.hex()
RECURSIVE bytes_hex(_)
bytes_hex(bs) ==
    IF bs = << >> THEN << >>
    ELSE << HexDigits[(Head(bs) \div 16) + 1], HexDigits[(Head(bs) % 16) + 1] >>
         \o bytes_hex(Tail(bs))

\* HexBytes.hex(): with the "0x" prefix or without it, as the installed
\* hexbytes release writes it
hex(bs) == IF hex_0x THEN <<"0", "x">> \o bytes_hex(bs) ELSE bytes_hex(bs)

\* s[2:]
drop2(s) == SubSeq(s, 3, Len(s))

\* bytes.fromhex
fromhex(s) ==
    [i \in 1..(Len(s) \div 2) |-> HexVal(s[2 * i - 1]) * 16 + HexVal(s[2 * i])]

\* int.to_bytes(w, "big") for 0 <= v < 256^w
RECURSIVE to_bytes(_, _)
to_bytes(v, w) ==
    IF w = 0 THEN << >> ELSE to_bytes(v \div 256, w - 1) \o << v % 256 >>

\* Web3.keccak: a collision-free hash, distinct payloads have distinct digests
keccak(payload) == [keccak256 |-> payload]

\* bytes.fromhex(tx_hash[2:]): the bytes the hash spells
tx_hash_bytes(h) == to_bytes(h.id, 2)

\* tx_commitment 63-78 without the gasUsed field
tx_commitment_no_gas(cid, h, r) ==
    << "0x", hex(<< >>),
       keccak(to_bytes(cid, 8) \o tx_hash_bytes(h) \o to_bytes(r.blockNumber, 8)
              \o to_bytes(r.status, 1)) >>

\* tx_commitment 63-78: "0x" + Web3.keccak(payload).hex()
tx_commitment(cid, h, r) ==
    << "0x", hex(<< >>),
       keccak(to_bytes(cid, 8) \o tx_hash_bytes(h) \o to_bytes(r.blockNumber, 8)
              \o to_bytes(r.status, 1) \o to_bytes(r.gasUsed, 8)) >>

\* header_commitment 80-99 without the stateRoot field
header_commitment_no_state_root(cid, header) ==
    << "0x", hex(<< >>),
       keccak(to_bytes(cid, 8)
              \o to_bytes(header.number, 8)
              \o fromhex(drop2(hex(header.hash)))
              \o fromhex(drop2(hex(header.parentHash)))
              \o fromhex(drop2(hex(header.receiptsRoot)))
              \o fromhex(drop2(hex(header.transactionsRoot)))
              \o to_bytes(header.timestamp, 8)) >>

\* header_commitment 80-99
header_commitment(cid, header) ==
    << "0x", hex(<< >>),
       keccak(to_bytes(cid, 8)
              \o to_bytes(header.number, 8)
              \o fromhex(drop2(hex(header.hash)))
              \o fromhex(drop2(hex(header.parentHash)))
              \o fromhex(drop2(hex(header.stateRoot)))
              \o fromhex(drop2(hex(header.receiptsRoot)))
              \o fromhex(drop2(hex(header.transactionsRoot)))
              \o to_bytes(header.timestamp, 8)) >>

\* compare_dicts 102-108 telling only whether both sides have the key
compare_dicts_presence(da, db) ==
    [k \in (DOMAIN da) \cup (DOMAIN db) |-> k \in DOMAIN da /\ k \in DOMAIN db]

\* compare_dicts 102-108 over the keys of the first dictionary only
compare_dicts_left_keys(da, db) ==
    [k \in DOMAIN da |->
        IF k \in DOMAIN db THEN da[k] = db[k] ELSE da[k] = None]

\* compare_dicts 102-108: a.get(k) == b.get(k) over the union of the keys;
\* a missing key reads as None
compare_dicts(da, db) ==
    [k \in (DOMAIN da) \cup (DOMAIN db) |->
        IF k \in DOMAIN da /\ k \in DOMAIN db THEN da[k] = db[k]
        ELSE IF k \in DOMAIN da THEN da[k] = None
        ELSE db[k] = None]

\* all(d.values())
all_values(d) == \A k \in DOMAIN d : d[k]

PendingOrNotFound == [statusText |-> "pending_or_not_found"]

\* fetch_tx_bundle 121-133 once the receipt and the chain id are at hand
tx_bundle_of(cid, h, r) ==
    IF r = NoneObj \/ r.blockNumber = None THEN PendingOrNotFound
    ELSE [chainId |-> cid,
          network |-> network_name(cid),
          tx |-> h,
          blockNumber |-> r.blockNumber,
          status |-> r.status,
          gasUsed |-> r.gasUsed,
          commitment |-> tx_commitment(cid, h, r)]

\* fetch_block_bundle 145-156 once the header and the chain id are at hand
block_bundle_of(cid, header) ==
    [chainId |-> cid,
     network |-> network_name(cid),
     number |-> header.number,
     hash |-> hex(header.hash),
     parentHash |-> hex(header.parentHash),
     stateRoot |-> hex(header.stateRoot),
     receiptsRoot |-> hex(header.receiptsRoot),
     transactionsRoot |-> hex(header.transactionsRoot),
     timestamp |-> header.timestamp,
     commitment |-> header_commitment(cid, header)]

\* as_int_or_tag 175-185 on the texts the model supplies
BlockTags == {"latest", "finalized", "safe", "pending"}

lower(s) == IF s = "Finalized" THEN "finalized" ELSE s

IntLiterals == {"5", "0x4"}

int_base0(s) == IF s = "5" THEN 5 ELSE 4

as_int_or_tag(s) ==
    IF s = NoneObj THEN Returned([tag |-> "latest"])
    ELSE IF lower(s.text) \in BlockTags THEN Returned([tag |-> lower(s.text)])
    ELSE IF s.text \in IntLiterals THEN Returned([number |-> int_base0(s.text)])
    ELSE Raised("exit(1)")

\* isinstance(block_id, int)
is_int(id) == "number" \in DOMAIN id

----------------------------------------------------------------------------
(* provider_consistency.py: the two providers *)

\* the header of block k on a provider that agrees with the chain; roots are
\* held as two bytes
canonical_header(k) ==
    [number |-> k,
     hash |-> <<160 + k, 1>>,
     parentHash |-> <<159 + k, 1>>,
     stateRoot |-> <<176 + k, 2>>,
     receiptsRoot |-> <<192 + k, 3>>,
     transactionsRoot |-> <<208 + k, 4>>,
     timestamp |-> 1000 + 12 * k]

\* how a provider's header of one block can deviate from the chain
Variants ==
    {"stateRoot_first", "stateRoot_last", "hash_last", "receiptsRoot_first", "timestamp"}

deviate(header, variant) ==
    IF variant = "stateRoot_first"
    THEN [header EXCEPT !.stateRoot = <<255, header.stateRoot[2]>>]
    ELSE IF variant = "stateRoot_last"
    THEN [header EXCEPT !.stateRoot = <<header.stateRoot[1], 255>>]
    ELSE IF variant = "hash_last"
    THEN [header EXCEPT !.hash = <<header.hash[1], 255>>]
    ELSE IF variant = "receiptsRoot_first"
    THEN [header EXCEPT !.receiptsRoot = <<255, header.receiptsRoot[2]>>]
    ELSE [header EXCEPT !.timestamp = header.timestamp + 1]

\* the header a provider holds for block k
header_of(p, k) ==
    IF p.bad = k THEN deviate(canonical_header(k), p.variant) ELSE canonical_header(k)

\* the pending block has no hash yet (hash is None)
pending_header(p) ==
    [f \in (DOMAIN canonical_header(p.head + 1)) \ {"hash"} |->
        header_of(p, p.head + 1)[f]]

\* w3.eth.get_block(block_id) on provider p
provider_get_block(p, id) ==
    IF is_int(id)
    THEN IF id.number <= p.head THEN Returned(header_of(p, id.number))
         ELSE Raised("BlockNotFound")
    ELSE IF id.tag = "latest" THEN Returned(header_of(p, p.head))
    ELSE IF id.tag = "pending" THEN Returned(pending_header(p))
    ELSE Returned(header_of(p, p.head - 1))

Provider(cid, hd, bad, variant, r) ==
    [chainId |-> cid, head |-> hd, bad |-> bad, variant |-> variant, rcpt |-> r]

ChainIds == {1, 10}
ProviderHeads == {4, 5}

Receipt(bn, status, gasUsed) == [blockNumber |-> bn, status |-> status, gasUsed |-> gasUsed]

ProviderReceipts ==
    {NoneObj, Receipt(None, 1, GasUsed), Receipt(3, 1, GasUsed), Receipt(3, 0, GasUsed),
     Receipt(4, 1, GasUsed), Receipt(3, 1, GasUsed + 1)}

\* providers of a transaction check
TxProviders ==
    {Provider(c, 5, None, "", r) : c \in ChainIds, r \in ProviderReceipts}

\* the primary provider of a block check agrees with the chain
PrimaryProviders ==
    {Provider(c, hd, None, "", NoneObj) : c \in ChainIds, hd \in ProviderHeads}
    \cup {Provider(1, 5, 5, "stateRoot_first", NoneObj)}

\* the secondary provider may deviate on one block
SecondaryProviders ==
    {Provider(c, hd, None, "", NoneObj) : c \in ChainIds, hd \in ProviderHeads}
    \cup {Provider(1, hd, k, v, NoneObj) : hd \in ProviderHeads, k \in 3..5, v \in Variants}

\* --tx: well formed, without "0x", too short, not hexadecimal, empty
VerifyHashes ==
    { [id |-> 1, has0x |-> TRUE, len |-> 66, hex |-> TRUE],
      [id |-> 1, has0x |-> FALSE, len |-> 66, hex |-> TRUE],
      [id |-> 1, has0x |-> TRUE, len |-> 10, hex |-> TRUE],
      [id |-> 1, has0x |-> TRUE, len |-> 66, hex |-> FALSE],
      [id |-> 0, has0x |-> FALSE, len |-> 0, hex |-> FALSE] }

\* --block
BlockTexts == {"latest", "Finalized", "pending", "5", "0x4", "abc"}

TxArgs ==
    [tx : VerifyHashes, block : {NoneObj}, json : BOOLEAN, strict_exit : BOOLEAN]

BlockArgs ==
    [tx : {NoneObj}, block : {[text |-> s] : s \in BlockTexts},
     json : BOOLEAN, strict_exit : BOOLEAN]

InitVerify ==
    /\ prog = "verify"
    /\ Idle
    /\ gw_txs = << >> /\ gw_basefee = None
    /\ gw_head = 0 /\ blk = NoBlock /\ values = << >> /\ q = 0
    /\ \/ /\ argv \in TxArgs
          /\ w3a \in TxProviders /\ w3b \in TxProviders
          /\ gw_raises \in BOOLEAN
          /\ hex_0x \in BOOLEAN
       \/ /\ argv \in BlockArgs
          /\ w3a \in PrimaryProviders /\ w3b \in SecondaryProviders
          /\ gw_raises = FALSE
          /\ hex_0x \in BOOLEAN
    /\ args = argv

CallOn(w, op, arg) == [op |-> op, arg |-> arg, w3 |-> w]

\* connect 47-60: fee_history, then is_connected, then chain_id
verify_connect(w, to) ==
    \E h \in {Returned(0)} \cup RpcErrors :
      IF h.raised
      THEN /\ calls' = Append(calls, CallOn(w, "fee_history", None))
           /\ CountFailure(h)
           /\ pc' = "done" /\ outcome' = "RpcError"
      ELSE \E connected \in BOOLEAN :
             IF ~connected
             THEN /\ calls' = calls \o << CallOn(w, "fee_history", None),
                                          CallOn(w, "is_connected", None) >>
                  /\ failures' = failures
                  /\ pc' = "done" /\ outcome' = "exit(1)"
             ELSE \E c \in chain_id :
                    /\ calls' = calls \o << CallOn(w, "fee_history", None),
                                            CallOn(w, "is_connected", None),
                                            CallOn(w, "chain_id", None) >>
                    /\ CountFailure(c)
                    /\ IF c.raised
                       THEN pc' = "done" /\ outcome' = "RpcError"
                       ELSE pc' = to /\ outcome' = outcome

\* main 193
verify_connect_a ==
    /\ prog = "verify" /\ pc = "start"
    /\ verify_connect("a", "connect_b")
    /\ UNCHANGED <<prog, providerVars, verifyVars, argv, args, feeVars, gwVars,
                   txVars, batchVars>>

\* main 194
verify_connect_b ==
    /\ prog = "verify" /\ pc = "connect_b"
    /\ verify_connect("b", "mode")
    /\ UNCHANGED <<prog, providerVars, verifyVars, argv, args, feeVars, gwVars,
                   txVars, batchVars>>

\* if args.tx: an empty string is false
truthy(h) == h # NoneObj /\ h.len > 0

\* main 196-199 and 246-247: the hash or the block identifier is checked
\* after both connections are made
verify_mode ==
    /\ prog = "verify" /\ pc = "mode"
    /\ IF truthy(args.tx)
       THEN /\ block_id' = block_id
            /\ IF ~is_tx_hash_hex(args.tx)
               THEN pc' = "done" /\ outcome' = "exit(1)"
               ELSE pc' = "tx_a" /\ outcome' = outcome
       ELSE IF as_int_or_tag(args.block).raised
            THEN /\ block_id' = block_id
                 /\ pc' = "done" /\ outcome' = "exit(1)"
            ELSE /\ block_id' = as_int_or_tag(args.block).value
                 /\ pc' = "block_a" /\ outcome' = outcome
    /\ UNCHANGED <<prog, providerVars, calls, argv, args, feeVars, gwVars, failures,
                   txVars, batchVars, bundle_a, bundle_b, cmp, all_match>>

\* fetch_tx_bundle 111-133 on provider p; bundle is the bundle returned
verify_fetch_tx(w, p, to, bundle) ==
    \E r \in {Lookup(p.rcpt)} \cup RpcErrors :
      IF r.raised
      THEN /\ calls' = Append(calls, CallOn(w, "get_transaction_receipt", args.tx.id))
           /\ CountFailure(r)
           /\ pc' = "done" /\ outcome' = r.error
           /\ bundle = NoneObj
      ELSE IF tx_bundle_of(p.chainId, args.tx, r.value) = PendingOrNotFound
      THEN /\ calls' = Append(calls, CallOn(w, "get_transaction_receipt", args.tx.id))
           /\ failures' = failures
           /\ pc' = to /\ outcome' = outcome
           /\ bundle = PendingOrNotFound
      ELSE \E c \in {Returned(p.chainId)} \cup RpcErrors :
             /\ calls' = calls \o << CallOn(w, "get_transaction_receipt", args.tx.id),
                                     CallOn(w, "chain_id", None) >>
             /\ CountFailure(c)
             /\ IF c.raised
                THEN /\ pc' = "done" /\ outcome' = "RpcError"
                     /\ bundle = NoneObj
                ELSE /\ pc' = to /\ outcome' = outcome
                     /\ bundle = tx_bundle_of(c.value, args.tx, r.value)

\* main 200
verify_fetch_tx_a ==
    /\ prog = "verify" /\ pc = "tx_a"
    /\ \E bundle \in {NoneObj, PendingOrNotFound}
                     \cup {tx_bundle_of(w3a.chainId, args.tx, r) : r \in ProviderReceipts} :
         /\ verify_fetch_tx("a", w3a, "tx_b", bundle)
         /\ bundle_a' = bundle
    /\ UNCHANGED <<prog, providerVars, argv, args, feeVars, gwVars, txVars, batchVars,
                   block_id, bundle_b, cmp, all_match>>

\* main 201: the secondary provider is asked also when the primary one
\* answered pending_or_not_found
verify_fetch_tx_b ==
    /\ prog = "verify" /\ pc = "tx_b"
    /\ \E bundle \in {NoneObj, PendingOrNotFound}
                     \cup {tx_bundle_of(w3b.chainId, args.tx, r) : r \in ProviderReceipts} :
         /\ verify_fetch_tx("b", w3b, "tx_cmp", bundle)
         /\ bundle_b' = bundle
    /\ UNCHANGED <<prog, providerVars, argv, args, feeVars, gwVars, txVars, batchVars,
                   block_id, bundle_a, cmp, all_match>>

\* main 242-243 and 301-302 without the strict exit
verdict_not_strict(a, match) == "ok"

\* main 242-243 and 301-302: strict mode turns a mismatch into exit status 1
verdict(a, match) == IF a.strict_exit /\ ~match THEN "exit(1) mismatch" ELSE "ok"

\* main 203-243: json is never imported, so --json ends in a NameError after
\* the comparison
verify_tx_compare ==
    /\ prog = "verify" /\ pc = "tx_cmp"
    /\ pc' = "done"
    /\ IF Get(bundle_a, "statusText", "") = "pending_or_not_found"
          \/ Get(bundle_b, "statusText", "") = "pending_or_not_found"
       THEN /\ outcome' = "exit(0) pending or not found"
            /\ UNCHANGED <<cmp, all_match>>
       ELSE /\ cmp' = compare_dicts(bundle_a, bundle_b)
            /\ IF args.json
               THEN outcome' = "NameError" /\ all_match' = all_match
               ELSE /\ all_match' = all_values(compare_dicts(bundle_a, bundle_b))
                    /\ outcome' = verdict(args, all_values(compare_dicts(bundle_a, bundle_b)))
    /\ UNCHANGED <<prog, providerVars, calls, argv, args, feeVars, gwVars, failures,
                   txVars, batchVars, block_id, bundle_a, bundle_b>>

\* fetch_block_bundle 135-156 on provider p; header.hash.hex() fails on the
\* pending block, whose hash is None
verify_fetch_block(w, p, id, to, bundle) ==
    \E r \in {provider_get_block(p, id)} \cup RpcErrors :
      IF r.raised
      THEN /\ calls' = Append(calls, CallOn(w, "get_block", id))
           /\ CountFailure(r)
           /\ pc' = "done" /\ outcome' = r.error
           /\ bundle = NoneObj
      ELSE \E c \in {Returned(p.chainId)} \cup RpcErrors :
             /\ calls' = calls \o << CallOn(w, "get_block", id),
                                     CallOn(w, "chain_id", None) >>
             /\ CountFailure(c)
             /\ IF c.raised
                THEN /\ pc' = "done" /\ outcome' = "RpcError"
                     /\ bundle = NoneObj
                ELSE IF "hash" \notin DOMAIN r.value
                THEN /\ pc' = "done" /\ outcome' = "AttributeError"
                     /\ bundle = NoneObj
                ELSE /\ pc' = to /\ outcome' = outcome
                     /\ bundle = block_bundle_of(c.value, r.value)

BlockIds == {[tag |-> t] : t \in BlockTags} \cup {[number |-> k] : k \in 0..6}

BlockBundles(p) ==
    {NoneObj} \cup {block_bundle_of(p.chainId, provider_get_block(p, id).value) :
                      id \in {i \in BlockIds : /\ ~provider_get_block(p, i).raised
                                               /\ "hash" \in DOMAIN provider_get_block(p, i).value}}

\* main 248
verify_fetch_block_a ==
    /\ prog = "verify" /\ pc = "block_a"
    /\ \E bundle \in BlockBundles(w3a) :
         /\ verify_fetch_block("a", w3a, block_id, "block_b", bundle)
         /\ bundle_a' = bundle
    /\ UNCHANGED <<prog, providerVars, argv, args, feeVars, gwVars, txVars, batchVars,
                   block_id, bundle_b, cmp, all_match>>

\* main 250 asking the secondary provider for block_id itself
b_block_id_same_tag(id, a) == id

\* main 250: a tag is replaced by the number the primary provider returned
b_block_id(id, a) == IF ~is_int(id) THEN [number |-> a.number] ELSE id

\* main 251
verify_fetch_block_b ==
    /\ prog = "verify" /\ pc = "block_b"
    /\ \E bundle \in BlockBundles(w3b) :
         /\ verify_fetch_block("b", w3b, b_block_id(block_id, bundle_a), "block_cmp", bundle)
         /\ bundle_b' = bundle
    /\ UNCHANGED <<prog, providerVars, argv, args, feeVars, gwVars, txVars, batchVars,
                   block_id, bundle_a, cmp, all_match>>

\* main 281-291
HeaderKeys ==
    {"chainId", "number", "hash", "parentHash", "stateRoot", "receiptsRoot",
     "transactionsRoot", "timestamp", "commitment"}

\* main 292: all(cmp.get(k, False) for k in keys)
all_header_keys(m) == \A k \in HeaderKeys : Get(m, k, FALSE)

\* main 253-302
verify_block_compare ==
    /\ prog = "verify" /\ pc = "block_cmp"
    /\ pc' = "done"
    /\ cmp' = compare_dicts(bundle_a, bundle_b)
    /\ IF args.json
       THEN outcome' = "NameError" /\ all_match' = all_match
       ELSE /\ all_match' = all_header_keys(compare_dicts(bundle_a, bundle_b))
            /\ outcome' = verdict(args, all_header_keys(compare_dicts(bundle_a, bundle_b)))
    /\ UNCHANGED <<prog, providerVars, calls, argv, args, feeVars, gwVars, failures,
                   txVars, batchVars, block_id, bundle_a, bundle_b>>

(* compare_dicts applied to two dictionaries *)

DictKeys == {"chainId", "status"}
DictValues == {None, 1, 2}

\* the dictionaries over some of the keys
Dicts == UNION {[ks -> DictValues] : ks \in SUBSET DictKeys}

InitCompare ==
    /\ NoTxGateway
    /\ prog = "compare"
    /\ pc = "start" /\ outcome = "" /\ calls = << >>
    /\ head = None /\ start = None /\ n = None
    /\ basefees = << >> /\ eff_prices = << >> /\ tips = << >>
    /\ report = NoReport /\ result = None /\ failures = 0
    /\ rcpt = NoneObj /\ tx_obj = NoneObj /\ block_obj = NoneObj
    /\ latest = None /\ gas_efficiency = None /\ summary = NoneObj
    /\ hashes = << >> /\ pos = 0 /\ cache = << >> /\ rows = << >>
    /\ fetched = << >>
    /\ block_id = NoneObj /\ cmp = NoneObj /\ all_match = NoneObj
    /\ bundle_a \in Dicts /\ bundle_b \in Dicts
    /\ blk = NoBlock
    /\ argv = NoArgs /\ args = NoArgs /\ gw_head = 0
    /\ values = << >> /\ q = 0

\* compare_dicts 102-108 and all(cmp.values()) of main 236
ApplyCompare ==
    /\ prog = "compare" /\ pc = "start"
    /\ cmp' = compare_dicts(bundle_a, bundle_b)
    /\ all_match' = all_values(compare_dicts(bundle_a, bundle_b))
    /\ pc' = "done"
    /\ outcome' = "ok"
    /\ UNCHANGED <<prog, providerVars, calls, argv, args, feeVars, gwVars, failures,
                   txVars, batchVars, block_id, bundle_a, bundle_b>>

(* safe_call applied to a wrapped call and a retries value *)

\* what the wrapped gateway call answers at one invocation
WrappedAnswers ==
    { Returned(NoneObj), Returned([blockNumber |-> 3]),
      Raised("RpcError"), Raised("Timeout") }

\* the retries values handed to safe_call
RetriesValues == (0 - 1)..MaxRetries

InitSafeCall ==
    /\ NoTxGateway
    /\ prog = "safe_call"
    /\ Idle
    /\ argv \in [retries : RetriesValues,
                 answers : [1..MaxRetries -> WrappedAnswers]]
    /\ args = argv
    /\ blk = NoBlock /\ gw_head = 0
    /\ values = << >> /\ q = 0

\* safe_call 61-68: the loop from `attempt` on; answers[i] is what the
\* wrapped call does at its i-th invocation.  A loop that runs out (or
\* never runs) falls off the end of the function, which returns None.
RECURSIVE safe_call_loop(_, _, _)
safe_call_loop(answers, retries, attempt) ==
    IF attempt > retries
    THEN [invocations |-> attempt - 1, result |-> Returned(NoneObj)]
    ELSE IF ~answers[attempt].raised
    THEN [invocations |-> attempt, result |-> answers[attempt]]
    ELSE IF attempt = retries
    THEN [invocations |-> attempt, result |-> answers[attempt]]
    ELSE safe_call_loop(answers, retries, attempt + 1)

\* safe_call 60-68 on one wrapped call
ApplySafeCall ==
    /\ prog = "safe_call" /\ pc = "start"
    /\ LET r == safe_call_loop(args.answers, args.retries, 1)
       IN  /\ calls' = calls \o [i \in 1..r.invocations |-> Call("fn", None)]
           /\ failures' = Cardinality({i \in 1..r.invocations : args.answers[i].raised})
           /\ result' = r.result
           /\ outcome' = IF r.result.raised THEN r.result.error ELSE "ok"
    /\ pc' = "done"
    /\ UNCHANGED <<prog, providerVars, verifyVars, argv, args, gw_head, head, start, n,
                   basefees, eff_prices, tips, report, blk, values, q,
                   gwVars, txVars, batchVars>>

----------------------------------------------------------------------------

Init ==
    \/ InitClassify \/ InitPct \/ InitFeeProfile \/ InitApp2 \/ InitApp1 \/ InitBatch
    \/ InitVerify \/ InitCompare \/ InitSafeCall

Next ==
    \/ ClassifyBlock
    \/ ApplyPct
    \/ fee_profile_main
    \/ fee_profile_connect
    \/ analyze_start
    \/ analyze_loop
    \/ analyze_finish
    \/ fee_profile_output
    \/ app2_main
    \/ app2_connect
    \/ app2_chain_id
    \/ app2_receipt
    \/ app2_pending_check
    \/ app2_receipt_check
    \/ app2_gas_efficiency
    \/ app2_get_block
    \/ app2_summary
    \/ app1_connect
    \/ app1_parse_hash
    \/ app1_fetch_gas_data
    \/ app1_fetch_tx_data
    \/ app1_confirmations
    \/ batch_main
    \/ batch_connect
    \/ batch_receipt
    \/ batch_tx
    \/ batch_block
    \/ batch_finish
    \/ verify_connect_a
    \/ verify_connect_b
    \/ verify_mode
    \/ verify_fetch_tx_a
    \/ verify_fetch_tx_b
    \/ verify_tx_compare
    \/ verify_fetch_block_a
    \/ verify_fetch_block_b
    \/ verify_block_compare
    \/ ApplyCompare
    \/ ApplySafeCall

Spec == Init /\ [][Next]_vars

----------------------------------------------------------------------------
(* Properties of the fee classifier *)

\* the base fee of the classified block, 0 when the block carries none
BlkBaseFee == IF "baseFeePerGas" \in DOMAIN blk THEN blk.baseFeePerGas ELSE 0

Classified == prog = "classify" /\ pc = "done"

IsType2(tx) == "type" \in DOMAIN tx /\ tx.type = 2

\* C1: every type-2 transaction of the block gets
\* effective = min(maxFeePerGas, baseFee + maxPriorityFeePerGas) and
\* tip = maxPriorityFeePerGas, so effective <= maxFeePerGas.
C1_Type2EffectiveAndTip ==
    Classified =>
      \A i \in 1..Len(blk.transactions) :
        LET tx == blk.transactions[i]
        IN  IsType2(tx) =>
              /\ eff_prices[i] = from_wei_gwei(Min(tx.maxFeePerGas,
                                     BlkBaseFee + tx.maxPriorityFeePerGas))
              /\ tips[i] = from_wei_gwei(tx.maxPriorityFeePerGas)
              /\ eff_prices[i] <= from_wei_gwei(tx.maxFeePerGas)

\* a type-2 transaction whose price is capped by maxFeePerGas was classified
C1_Witness ==
    /\ Classified
    /\ \E i \in 1..Len(blk.transactions) :
         LET tx == blk.transactions[i]
         IN  /\ IsType2(tx)
             /\ tx.maxFeePerGas < BlkBaseFee + tx.maxPriorityFeePerGas
             /\ eff_prices[i] = from_wei_gwei(tx.maxFeePerGas)
             /\ tx.maxFeePerGas > 0

\* C2: every transaction whose type is not 2 (0, 1, another value, or no
\* type at all) gets effective = gasPrice and tip = max(0, gasPrice - baseFee),
\* where a block without a base fee counts as base fee 0 (tip = gasPrice).
C2_LegacyPath ==
    Classified =>
      \A i \in 1..Len(blk.transactions) :
        LET tx == blk.transactions[i]
        IN  ~IsType2(tx) =>
              /\ eff_prices[i] = from_wei_gwei(tx.gasPrice)
              /\ tips[i] = from_wei_gwei(IF tx.gasPrice > BlkBaseFee
                                         THEN tx.gasPrice - BlkBaseFee ELSE 0)
              /\ "baseFeePerGas" \notin DOMAIN blk
                    => tips[i] = from_wei_gwei(tx.gasPrice)

\* a transaction with an unknown type tag and one without a type tag were
\* classified in a block that has no base fee
C2_Witness ==
    /\ Classified
    /\ "baseFeePerGas" \notin DOMAIN blk
    /\ Len(blk.transactions) = 2
    /\ "type" \notin DOMAIN blk.transactions[1]
    /\ blk.transactions[1].gasPrice > 0
    /\ "type" \in DOMAIN blk.transactions[2]
    /\ blk.transactions[2].type = 3
    /\ tips[2] = from_wei_gwei(blk.transactions[2].gasPrice)

\* max(0, effectivePrice - baseFee) for the i-th classified transaction
ClampedDifference(i) ==
    IF eff_prices[i] > from_wei_gwei(BlkBaseFee)
    THEN eff_prices[i] - from_wei_gwei(BlkBaseFee) ELSE 0

\* the rows of the batch report that carry fee fields
FeeRows == {i \in 1..Len(rows) : "tipAtTxGwei" \in DOMAIN rows[i]}

RowClampedDifference(row) ==
    IF row.effectiveGasPriceGwei > row.baseFeeAtTxGwei
    THEN row.effectiveGasPriceGwei - row.baseFeeAtTxGwei ELSE 0

\* C3 as stated: for either fee type the tip equals
\* max(0, effectivePrice - baseFee) and is never negative.
C3_TipIsClampedDifference ==
    /\ Classified =>
         \A i \in 1..Len(blk.transactions) :
           tips[i] >= 0 /\ tips[i] = ClampedDifference(i)
    /\ prog = "batch" =>
         \A i \in FeeRows :
           rows[i].tipAtTxGwei >= 0 /\ rows[i].tipAtTxGwei = RowClampedDifference(rows[i])

\* C3 amended: the tip is never negative; it equals
\* max(0, effectivePrice - baseFee) on the legacy path and in summarize_tx;
\* for a type-2 transaction the classifier's tip is maxPriorityFeePerGas,
\* which is at least max(0, effectivePrice - baseFee) and equals it when
\* maxFeePerGas >= baseFee + maxPriorityFeePerGas.
C3_TipNeverNegative ==
    /\ Classified =>
         \A i \in 1..Len(blk.transactions) :
           LET t == blk.transactions[i]
           IN  /\ tips[i] >= 0
               /\ ~IsType2(t) => tips[i] = ClampedDifference(i)
               /\ IsType2(t) =>
                    /\ tips[i] = from_wei_gwei(t.maxPriorityFeePerGas)
                    /\ tips[i] >= ClampedDifference(i)
                    /\ t.maxFeePerGas >= BlkBaseFee + t.maxPriorityFeePerGas
                          => tips[i] = ClampedDifference(i)
    /\ prog = "batch" =>
         \A i \in FeeRows :
           rows[i].tipAtTxGwei >= 0 /\ rows[i].tipAtTxGwei = RowClampedDifference(rows[i])

\* a legacy transaction priced below the base fee got tip 0, next to a
\* type-2 transaction whose tip exceeds effective - baseFee
C3_Witness ==
    /\ Classified
    /\ Len(blk.transactions) = 2
    /\ ~IsType2(blk.transactions[1])
    /\ blk.transactions[1].gasPrice < BlkBaseFee
    /\ blk.transactions[1].gasPrice > 0
    /\ tips[1] = 0
    /\ IsType2(blk.transactions[2])
    /\ tips[2] > ClampedDifference(2)

\* the batch report holds a row of a transaction priced below the base fee
C3_WitnessBatch ==
    /\ prog = "batch"
    /\ \E i \in FeeRows :
         /\ rows[i].effectiveGasPriceGwei < rows[i].baseFeeAtTxGwei
         /\ rows[i].tipAtTxGwei = 0

----------------------------------------------------------------------------
(* Properties of pct *)

PctApplied == prog = "pct" /\ pc = "done"

\* C4: pct(xs, 0.0) is the minimum and pct(xs, 1.0) the maximum of a
\* non-empty sample; pct([], q) is 0.0 for every q.
C4_PctEndpoints ==
    PctApplied =>
      /\ Len(values) = 0 => result = 0
      /\ (Len(values) > 0 /\ q = 0) =>
            /\ \E i \in 1..Len(values) : values[i] = result
            /\ \A i \in 1..Len(values) : result <= values[i]
      /\ (Len(values) > 0 /\ q = QDen) =>
            /\ \E i \in 1..Len(values) : values[i] = result
            /\ \A i \in 1..Len(values) : result >= values[i]

\* pct(xs, 1.0) was taken of an unsorted sample whose maximum is not last
C4_Witness ==
    /\ PctApplied
    /\ q = QDen
    /\ Len(values) = 3
    /\ values[1] > values[2] /\ values[1] > values[3]
    /\ result = values[1]

----------------------------------------------------------------------------
(* Properties of the profiler *)

Reported == prog = "fee_profile" /\ report # NoReport

\* the p50 that nearest-rank (pct with q = 0.5) would report
NearestRankP50(xs) == IF Len(xs) > 0 THEN round3(pct(xs, 50)) ELSE 0

\* the p95 that nearest-rank reports
NearestRankP95(xs) == IF Len(xs) > 0 THEN round3(pct(xs, 95)) ELSE 0

\* the rounded median: the middle element of an odd-sized sample, the mean
\* of the two middle elements of an even-sized one
MedianP50(xs) ==
    LET len == Len(xs)
        s == sorted(xs)
    IN  IF len = 0 THEN 0
        ELSE IF len % 2 = 1 THEN round3(s[(len + 1) \div 2])
        ELSE round3((s[len \div 2] + s[(len \div 2) + 1]) \div 2)

LoopFetches == SelectSeq(calls, LAMBDA c : c.op = "get_block_full")
Visited == [i \in 1..Len(LoopFetches) |-> LoopFetches[i].arg]

SampledCount == ((head - start) \div args.step) + 1

\* C6 as stated: a run with blockSpan >= 1 and stride >= 1 visits exactly
\* head, head - stride, ... down to start, in descending order, and reports
\* sampledBlockCount = floor((head - start) / stride) + 1.
C6_VisitsAndReports ==
    (prog = "fee_profile" /\ pc = "done" /\ head # None) =>
      /\ Visited = [i \in 1..SampledCount |-> head - (i - 1) * args.step]
      /\ report # NoReport
      /\ report.sampledBlocks = SampledCount

\* C7: a stride <= 0 ends the run with the configuration error before any
\* gateway call is issued.
C7_StrideRejectedBeforeGateway ==
    (prog = "fee_profile" /\ argv.step <= 0) =>
      /\ calls = << >>
      /\ pc \in {"start", "done"}
      /\ pc = "done" => outcome = "exit(1)"

\* a run with a valid span and a stride <= 0 has ended
C7_Witness ==
    /\ prog = "fee_profile"
    /\ argv.step <= 0 /\ argv.blocks > 0
    /\ pc = "done" /\ outcome = "exit(1)"

\* C8: a span above the ceiling is clamped to it before sampling; the
\* window [start, head] of a run never holds more than MAX_BLOCKS blocks and
\* no run fetches more than that.
C8_SpanClamped ==
    (prog = "fee_profile" /\ pc # "start" /\ argv.blocks > 0 /\ argv.step > 0) =>
      /\ args.blocks = (IF argv.blocks > MAX_BLOCKS THEN MAX_BLOCKS ELSE argv.blocks)
      /\ head # None => head - start + 1 <= MAX_BLOCKS
      /\ Len(LoopFetches) <= MAX_BLOCKS

\* a run asked for more than the ceiling and sampled a window of exactly
\* the ceiling
C8_Witness ==
    /\ prog = "fee_profile"
    /\ argv.blocks > MAX_BLOCKS
    /\ pc = "done"
    /\ head # None /\ head - start + 1 = MAX_BLOCKS
    /\ Len(LoopFetches) >= 2

----------------------------------------------------------------------------
(* Properties of the transaction summaries *)

\* C9 as stated: every transaction summary has
\* confirmations = max(0, latest - blockNumber) >= 0, also when the latest
\* block number read is below the transaction's block number.
C9_ConfirmationsNonNegative ==
    /\ (prog = "app2" /\ summary # NoneObj) =>
          /\ summary.confirmations >= 0
          /\ summary.confirmations =
                (IF latest > summary.blockNumber THEN latest - summary.blockNumber ELSE 0)
    /\ (prog = "app1" /\ summary # NoneObj /\ "confirmations" \in DOMAIN summary) =>
          /\ summary.confirmations >= 0
          /\ summary.confirmations =
                (IF latest > summary.block_number THEN latest - summary.block_number ELSE 0)
    /\ prog = "batch" =>
         \A i \in FeeRows :
           /\ rows[i].confirmations >= 0
           /\ rows[i].confirmations =
                 (IF latest > rows[i].blockNumber THEN latest - rows[i].blockNumber ELSE 0)

\* the terminal outcome the gateway's answer for a transaction calls for
ExpectedKind(sc) ==
    IF sc.state = "absent" THEN "not_found"
    ELSE IF sc.state = "pending" THEN "pending"
    ELSE IF sc.receipt # "ok" THEN "receipt_unavailable"
    ELSE "summary"

\* the terminal outcome App2.py ended with
App2Kind ==
    IF outcome = "exit(0) pending" THEN "pending"
    ELSE IF outcome = "exit(0) not found or not yet included" THEN "not_found"
    ELSE IF outcome = "ok" THEN "summary"
    ELSE "rpc_failure"

\* the run asked the gateway for the receipt and no RPC error occurred
Asked ==
    /\ pc = "done"
    /\ failures = 0
    /\ \E i \in 1..Len(calls) : calls[i].op = "get_transaction_receipt"

\* C10 as stated: an absent transaction ends as not-found, an unmined one as
\* pending, a mined one without a usable receipt as receipt-unavailable; a
\* pending transaction never ends as a hard failure.
C10_OutcomesDistinguished ==
    /\ (prog = "app2" /\ Asked) => App2Kind = ExpectedKind(gw_txs[1])
    /\ (prog = "batch" /\ Asked) =>
         \A i \in 1..Len(rows) :
           "statusText" \in DOMAIN rows[i] =>
              ExpectedKind(gw_txs[rows[i].txHash]) = "pending"

----------------------------------------------------------------------------
(* Gateway queries of one summary *)

\* how many times the run asked the gateway for `op`
CountCalls(op) == Cardinality({i \in 1..Len(calls) : calls[i].op = op})

\* the four logical queries of a summary
SummaryQueries ==
    {"get_transaction", "get_transaction_receipt", "get_block", "block_number"}

\* a summary was produced and no call failed
CommonPath == pc = "done" /\ outcome = "ok" /\ failures = 0

\* C11 as stated: on the common path (mined transaction, every call
\* succeeds) one summary asks the gateway exactly once for each of the
\* transaction, the receipt, the block and the latest block number.
C11_FourQueriesNoRepeat ==
    (prog \in {"app2", "app1"} /\ CommonPath) =>
        \A op \in SummaryQueries : CountCalls(op) = 1

----------------------------------------------------------------------------
(* Validation of the caller's input *)

\* the command line carries a malformed transaction hash or block identifier
MalformedInput ==
    \/ prog \in {"app2", "app1"} /\ ~is_tx_hash(argv.tx_hash)
    \/ prog = "verify" /\ argv.tx # NoneObj /\ ~is_tx_hash_hex(argv.tx)
    \/ prog = "verify" /\ argv.block # NoneObj /\ as_int_or_tag(argv.block).raised

\* C12 as stated: a malformed transaction hash or block identifier is
\* rejected before any network call; no connection attempt or gateway query
\* is ever issued for it.
C12_RejectedBeforeNetwork == MalformedInput => calls = << >>

----------------------------------------------------------------------------
(* Properties of the consistency check *)

\* both providers returned a bundle of receipt or header fields
BothBundles ==
    /\ prog = "verify"
    /\ bundle_a # NoneObj /\ bundle_b # NoneObj
    /\ bundle_a # PendingOrNotFound /\ bundle_b # PendingOrNotFound

TxMode == "blockNumber" \in DOMAIN bundle_a

\* the fields a commitment is computed from
TxCommitted == {"chainId", "tx", "blockNumber", "status", "gasUsed"}
HeaderCommitted == HeaderKeys \ {"commitment"}
Committed == IF TxMode THEN TxCommitted ELSE HeaderCommitted

SameCommitted == \A k \in Committed : bundle_a[k] = bundle_b[k]

\* C13 as stated: tx_commitment and header_commitment give identical
\* digests for identical committed fields, and a change of any single
\* committed field changes the digest: the digests computed for the two
\* providers are equal exactly when all committed fields are equal.
C13_DigestFollowsFields ==
    BothBundles => ((bundle_a.commitment = bundle_b.commitment) <=> SameCommitted)

\* a match map was computed
Compared == prog \in {"compare", "verify"} /\ pc = "done" /\ cmp # NoneObj

\* a.get(k) == b.get(k)
FieldEqual(k) ==
    IF k \in DOMAIN bundle_a /\ k \in DOMAIN bundle_b
    THEN bundle_a[k] = bundle_b[k]
    ELSE Get(bundle_a, k, None) = Get(bundle_b, k, None)

\* the run ended with a verdict on the match map
VerdictGiven == outcome \in {"ok", "exit(1) mismatch"}

\* C14: the match map has exactly the keys present in either bundle,
\* matchMap[k] is true iff a.get(k) = b.get(k) with a missing key read as
\* absent, and the overall match of the verdict and of strict mode is the
\* AND of all matchMap values.
C14_MatchMapAndOverall ==
    Compared =>
        /\ DOMAIN cmp = (DOMAIN bundle_a) \cup (DOMAIN bundle_b)
        /\ \A k \in DOMAIN cmp : cmp[k] <=> FieldEqual(k)
        /\ VerdictGiven =>
              /\ all_match <=> (\A k \in DOMAIN cmp : cmp[k])
              /\ (prog = "verify" /\ args.strict_exit) =>
                    (outcome = "exit(1) mismatch" <=> ~(\A k \in DOMAIN cmp : cmp[k]))

\* two dictionaries with different keys were compared and agree on one key only
C14_Witness ==
    /\ prog = "compare" /\ pc = "done"
    /\ DOMAIN bundle_a # DOMAIN bundle_b
    /\ \E k \in DOMAIN cmp : cmp[k]
    /\ \E k \in DOMAIN cmp : ~cmp[k]
    /\ ~all_match

\* a strict run that ended on a mismatch of the header bundles
C14_WitnessStrict ==
    /\ prog = "verify" /\ outcome = "exit(1) mismatch"
    /\ "stateRoot" \in DOMAIN cmp
    /\ ~cmp["stateRoot"] /\ cmp["number"]


\* the bundle fetch_tx_bundle returns on provider p when no RPC error
\* occurs, NoneObj when the call raises
TxBundleOn(p) ==
    IF Lookup(p.rcpt).raised THEN NoneObj
    ELSE tx_bundle_of(p.chainId, args.tx, p.rcpt)

\* the bundle fetch_block_bundle returns on provider p for id, NoneObj when
\* it raises
BlockBundleOn(p, id) ==
    IF provider_get_block(p, id).raised THEN NoneObj
    ELSE IF "hash" \notin DOMAIN provider_get_block(p, id).value THEN NoneObj
    ELSE block_bundle_of(p.chainId, provider_get_block(p, id).value)

\* the match map of the check of this command line with pa as primary and
\* pb as secondary provider, NoneObj when the check computes none
VerifyTxMap(pa, pb) ==
    IF ~is_tx_hash_hex(args.tx) THEN NoneObj
    ELSE IF TxBundleOn(pa) = NoneObj \/ TxBundleOn(pb) = NoneObj THEN NoneObj
    ELSE IF PendingOrNotFound \in {TxBundleOn(pa), TxBundleOn(pb)} THEN NoneObj
    ELSE compare_dicts(TxBundleOn(pa), TxBundleOn(pb))

VerifyBlockMap(pa, pb, id) ==
    IF BlockBundleOn(pa, id) = NoneObj THEN NoneObj
    ELSE IF BlockBundleOn(pb, b_block_id(id, BlockBundleOn(pa, id))) = NoneObj THEN NoneObj
    ELSE compare_dicts(BlockBundleOn(pa, id),
                       BlockBundleOn(pb, b_block_id(id, BlockBundleOn(pa, id))))

VerifyMap(pa, pb) ==
    IF truthy(args.tx) THEN VerifyTxMap(pa, pb)
    ELSE IF as_int_or_tag(args.block).raised THEN NoneObj
    ELSE VerifyBlockMap(pa, pb, as_int_or_tag(args.block).value)

\* a check that ran to its end without an RPC error
VerifyDone == prog = "verify" /\ pc = "done" /\ failures = 0 /\ outcome # "exit(1)"

\* both providers resolve the tag of this command line to the same block
SameSubject ==
    \/ truthy(args.tx)
    \/ as_int_or_tag(args.block).raised
    \/ is_int(as_int_or_tag(args.block).value)
    \/ w3a.head = w3b.head

\* C15 as stated: for the same transaction hash or block identifier or tag,
\* the check with the providers swapped produces the same match map.
C15_SymmetricUnderSwap ==
    VerifyDone => /\ cmp = VerifyMap(w3a, w3b)
                  /\ VerifyMap(w3a, w3b) = VerifyMap(w3b, w3a)

\* C15 amended: compare_dicts is symmetric in its two bundles, so the check
\* with the providers swapped produces the same match map for a transaction
\* hash, for a block number, and for a tag that both providers resolve to
\* the same block number.
C15_SymmetricOnSameSubject ==
    /\ (prog = "compare" /\ pc = "done") => cmp = compare_dicts(bundle_b, bundle_a)
    /\ (VerifyDone /\ SameSubject) =>
          /\ cmp = VerifyMap(w3a, w3b)
          /\ VerifyMap(w3a, w3b) = VerifyMap(w3b, w3a)

\* a block was checked by tag on two providers that disagree on it
C15_Witness ==
    /\ VerifyDone /\ SameSubject
    /\ block_id # NoneObj /\ ~is_int(block_id)
    /\ w3a # w3b
    /\ cmp # NoneObj
    /\ \E k \in DOMAIN cmp : ~cmp[k]


\* the positions of the get_block calls made to provider w
GetBlockCalls(w) ==
    {i \in 1..Len(calls) : calls[i].op = "get_block" /\ calls[i].w3 = w}

\* C16: when a block is checked by tag, the tag is resolved on the primary
\* provider first and the secondary provider is asked for the exact block
\* number the primary returned, never for the tag; both bundles describe
\* the same block number.
C16_TagResolvedOnPrimary ==
    prog = "verify" =>
        /\ \A i \in GetBlockCalls("b") :
             /\ is_int(calls[i].arg)
             /\ \E j \in GetBlockCalls("a") : j < i /\ calls[j].arg = block_id
             /\ ~is_int(block_id) => calls[i].arg.number = bundle_a.number
        /\ (BothBundles /\ ~TxMode) => bundle_a.number = bundle_b.number

\* a block checked by a tag that the secondary provider would resolve to
\* another block number
C16_Witness ==
    /\ BothBundles /\ ~TxMode
    /\ block_id # NoneObj /\ ~is_int(block_id)
    /\ w3a.head # w3b.head
    /\ GetBlockCalls("b") # {}
    /\ pc = "done"


\* the provider has no receipt for the transaction, or one without a block
ReportsPendingOrNotFound(p) == p.rcpt = NoneObj \/ p.rcpt.blockNumber = None

\* a transaction check that got past the connections and the hash check and
\* met no RPC error
TxCheckDone ==
    /\ prog = "verify" /\ pc = "done"
    /\ truthy(args.tx) /\ is_tx_hash_hex(args.tx)
    /\ failures = 0 /\ outcome # "exit(1)"

\* C17 as stated: if either provider reports the transaction as pending or
\* not found, the check ends as inconclusive: no match map is computed, no
\* mismatch is reported and strict mode does not make it a failure.
C17_PendingIsInconclusive ==
    (TxCheckDone /\ (ReportsPendingOrNotFound(w3a) \/ ReportsPendingOrNotFound(w3b))) =>
        /\ outcome = "exit(0) pending or not found"
        /\ cmp = NoneObj

\* the part of C17 the code keeps: a pending_or_not_found bundle on either
\* side ends the check with status 0 and without a match map, also in
\* strict mode
C17_SentinelIsInconclusive ==
    (TxCheckDone /\ PendingOrNotFound \in {bundle_a, bundle_b} /\ bundle_b # NoneObj) =>
        /\ outcome = "exit(0) pending or not found"
        /\ cmp = NoneObj


\* a match map of two header bundles
HeadersCompared == prog = "verify" /\ pc = "done" /\ cmp # NoneObj /\ ~TxMode

\* C18 as stated: when a committed header field such as stateRoot differs
\* between the providers, matchMap of that field and matchMap["commitment"]
\* are false, every field with equal values stays true and the overall match
\* is false; the commitment entry matches exactly when all committed fields
\* match.
C18_CommitmentTracksFields ==
    HeadersCompared =>
        /\ \A k \in HeaderCommitted : cmp[k] <=> (bundle_a[k] = bundle_b[k])
        /\ cmp["commitment"] <=> (\A k \in HeaderCommitted : cmp[k])
        /\ VerdictGiven =>
              ((\E k \in HeaderCommitted : ~cmp[k]) => ~all_match)


----------------------------------------------------------------------------
(* Defaults in the transaction summaries *)

\* the receipt the summary was built from carries no effective gas price
NoEffectivePrice(r) == r # NoneObj /\ "effectiveGasPrice" \notin DOMAIN r

\* C19 as stated: no default is silently substituted for data that could
\* not be obtained; when the receipt carries no effective gas price, the
\* summary reports the transaction's gas price and the fee computed from
\* it, never a price or fee of 0.
C19_NoSilentZeroPrice ==
    /\ (prog = "app2" /\ outcome = "ok" /\ NoEffectivePrice(rcpt)) =>
          /\ summary.gasPriceGwei = from_wei_gwei(gw_txs[1].gasPrice)
          /\ summary.totalFeeEth = from_wei_ether(rcpt.gasUsed * gw_txs[1].gasPrice)
    /\ (prog = "app1" /\ outcome = "ok" /\ NoEffectivePrice(rcpt)) =>
          summary.fee_eth = from_wei_ether(rcpt.gasUsed * gw_txs[1].gasPrice)
    /\ prog = "batch" =>
          \A i \in FeeRows :
            NoEffectivePrice(receipt_of(gw_txs[rows[i].txHash])) =>
              /\ rows[i].effectiveGasPriceGwei =
                    from_wei_gwei(gw_txs[rows[i].txHash].gasPrice)
              /\ rows[i].totalFeeEth =
                    from_wei_ether(rows[i].gasUsed * gw_txs[rows[i].txHash].gasPrice)


----------------------------------------------------------------------------
(* The percentile index *)

\* round(q * (n - 1)) clamped to [0, n - 1]
ClampedRank == Max(0, Min(Len(values) - 1, RoundHalfEven(q * (Len(values) - 1), QDen)))

Below(x) == Cardinality({i \in 1..Len(values) : values[i] < x})
AtMost(x) == Cardinality({i \in 1..Len(values) : values[i] <= x})

\* C20: for a non-empty sample of size n and any q, also outside [0, 1],
\* pct returns the element of the ascending-sorted sample at index
\* round(q * (n - 1)) clamped to [0, n - 1]: an element of the sample with
\* at most that many elements below it and more than that many not above it.
C20_PctNearestRank ==
    (PctApplied /\ Len(values) > 0) =>
        /\ ClampedRank \in 0..(Len(values) - 1)
        /\ \E i \in 1..Len(values) : values[i] = result
        /\ Below(result) <= ClampedRank
        /\ ClampedRank < AtMost(result)

\* pct was taken for q above 1 of an unsorted sample of three distinct values
C20_Witness ==
    /\ PctApplied
    /\ q > QDen
    /\ Len(values) = 3
    /\ values[1] > values[3] /\ values[3] > values[2]
    /\ result = values[1]

\* pct was taken for q below 0 of an unsorted sample
C20_WitnessBelow ==
    /\ PctApplied
    /\ q < 0
    /\ Len(values) = 2
    /\ values[1] > values[2]
    /\ result = values[2]


----------------------------------------------------------------------------
(* Block fetches of one sampling run *)

\* how many times the run asked the gateway for block number k, with or
\* without the transaction bodies
BlockFetches(k) ==
    Cardinality({i \in 1..Len(calls) :
                   calls[i].op \in {"get_block_full", "get_block"} /\ calls[i].arg = k})

\* C21 as stated: within one sampling run no block number is fetched from
\* the gateway more than once; head and start, needed again for the
\* average-block-time estimate, are not fetched a second time.
C21_NoBlockFetchedTwice ==
    (prog = "fee_profile" /\ head # None) =>
        \A k \in start..head : BlockFetches(k) <= 1


----------------------------------------------------------------------------
(* The retry policy of safe_call *)

SafeCallApplied == prog = "safe_call" /\ pc = "done"

\* how many times safe_call invoked the wrapped call
Invocations == Len(calls)

\* the retry policy for the retries value given: at most `retries`
\* invocations, every one before the last failed, a returned value is the
\* answer of the last invocation, and an exception leaves only after
\* `retries` failed attempts and is the one the last attempt raised
BoundedRetry ==
    /\ Invocations <= Max(0, args.retries)
    /\ \A i \in 1..(Invocations - 1) : args.answers[i].raised
    /\ ~result.raised =>
          /\ Invocations >= 1
          /\ ~args.answers[Invocations].raised
          /\ result = args.answers[Invocations]
    /\ result.raised =>
          /\ Invocations = args.retries
          /\ result = args.answers[args.retries]

C22_BoundedRetryFromOne ==
    (SafeCallApplied /\ args.retries >= 1) => BoundedRetry

\* safe_call gave up after three failed attempts and let the last one out
C22_WitnessExhausted ==
    /\ SafeCallApplied
    /\ args.retries = 3
    /\ Invocations = 3
    /\ args.answers[2] = Raised("RpcError")
    /\ result = Raised("Timeout")


----------------------------------------------------------------------------
(* The block cache of one batch run *)

\* how many times get_block answered with block number k in this run
SuccessfulFetches(k) == Cardinality({i \in 1..Len(fetched) : fetched[i] = k})

\* every entry of the cache holds the gateway's block of that number
CacheHoldsGatewayBlocks ==
    \A k \in DOMAIN cache : cache[k] = block_of(k, gw_basefee)

\* no block number was successfully requested twice
FetchedAtMostOnce ==
    \A i, j \in 1..Len(fetched) : fetched[i] = fetched[j] => i = j

\* summarize_tx is before its block lookup (lines 75-80): a call that ends
\* as pending_or_not_found, or fails on the receipt or the transaction, is
\* made of steps taken here only
BeforeBlockLookup == prog = "batch" /\ pc \in {"receipt", "tx"}

\* C23: in one batch run, whatever summarize_tx calls were made, every
\* cache entry for block number n holds the block the gateway returned for
\* n, get_block has answered at most once per block number, and a call that
\* ends as pending_or_not_found or fails before the block fetch leaves the
\* cache unchanged.
C23_CacheOfOneRun ==
    /\ [](prog = "batch" => CacheHoldsGatewayBlocks /\ FetchedAtMostOnce)
    /\ [][BeforeBlockLookup => cache' = cache]_vars

\* two transactions of block 3 were summarized: the block was fetched for
\* the first and served from the cache for the second
C23_Witness ==
    /\ prog = "batch" /\ pc = "done"
    /\ Len(rows) = 2
    /\ "blockNumber" \in DOMAIN rows[1] /\ rows[1].blockNumber = 3
    /\ "blockNumber" \in DOMAIN rows[2] /\ rows[2].blockNumber = 3
    /\ rows[1].txHash # rows[2].txHash
    /\ DOMAIN cache = {3}
    /\ SuccessfulFetches(3) = 1

\* the block fetch of the first call failed on every attempt and cached
\* nothing; the second call fetched the same block and cached it
C23_WitnessAfterFailure ==
    /\ prog = "batch" /\ pc = "done"
    /\ Len(rows) = 1
    /\ DOMAIN cache = {3}
    /\ fetched = << 3 >>
    /\ Cardinality({i \in 1..Len(calls) : calls[i] = Call("get_block", 3)}) = 3

\* a transaction without a receipt was reported after a block was cached
C23_WitnessPending ==
    /\ prog = "batch" /\ pc = "done"
    /\ Len(rows) = 2
    /\ "statusText" \in DOMAIN rows[2]
    /\ DOMAIN cache = {7}

====
